---- MODULE Spec2Model ----
(***************************************************************************)
(* State-machine model of the API-key pool manager                         *)
(* (src/app/service/key/key_manager.py) and of the retry decorator         *)
(* (src/app/handler/retry_handler.py).                                     *)
(*                                                                         *)
(* Every coroutine of the key manager is cut into steps at its lock        *)
(* acquisitions and at its network / sleep awaits: one step is one         *)
(* critical section (or one synchronous stretch of code), and steps of     *)
(* different tasks interleave freely.                                      *)
(***************************************************************************)
EXTENDS Integers, Sequences, FiniteSets, TLC

\* ------------------------------------------------------------------------
\* Universe and bounds
\* ------------------------------------------------------------------------
Keys == {"k1", "k2", "k3"}
KeyLists == {<< >>, <<"k1">>, <<"k1", "k2">>, <<"k1", "k2", "k3">>}
Tasks == {"t1", "t2"}

NoKey == ""
\* A task that is in no listing call.
NoListing == [op |-> "none", pc |-> "idle", i |-> 0]
Raised == "raised"
Absent == -1

MAX_FAILURES == 2
MAX_RETRIES == 2
KEY_FREEZE_DURATION_SECONDS == 2

MaxTime == 3
MaxFailCount == 2
MaxAdvances == 5
MaxBgTasks == 2
MaxAttempts == 3
MaxUsedCount == 3
MaxInstances == 3
MaxPageSize == 2

MaxDraws == 2

\* ------------------------------------------------------------------------
\* State
\* ------------------------------------------------------------------------
VARIABLES
    api_keys,                     \* self.api_keys
    cycle_pos,                    \* self.key_cycle: 0-based index of the key next() yields
    key_usage_counter,            \* self.key_usage_counter
    key_failure_counts,           \* self.key_failure_counts (Absent: no entry)
    frozen_keys,                  \* self.frozen_keys: key -> deadline (Absent: no entry)
    manually_frozen_keys,         \* self.manually_frozen_keys
    disabled_keys,                \* self.disabled_keys
    now,                          \* datetime.now()
    enable_freeze_429,            \* settings.ENABLE_KEY_FREEZE_ON_429
    precheck_enabled,             \* self.precheck_enabled
    precheck_count,               \* self.precheck_count
    precheck_trigger_ratio,       \* self.precheck_trigger_ratio, in tenths
    precheck_in_progress,         \* self.precheck_in_progress
    valid_keys_batch_a,           \* self.valid_keys_batch_a
    valid_keys_batch_b,           \* self.valid_keys_batch_b
    current_batch_name,           \* self.current_batch_name
    current_batch_index,          \* self.current_batch_index
    batch_a_ready,                \* self.batch_a_ready
    batch_b_ready,                \* self.batch_b_ready
    valid_keys_used_count,        \* self.valid_keys_used_count
    valid_keys_trigger_threshold, \* self.valid_keys_trigger_threshold
    run,                          \* the precheck run in flight (keys_to_check, results)
    bg_tasks,                     \* created, not yet started _perform_precheck_async tasks
    initial_precheck_pending,     \* the _perform_initial_precheck task has not run yet
    pc,                           \* per task: position in its coroutine
    op,                           \* per task: the public operation it is running
    mode,                         \* per task: how the selector call was served
    initial_key,                  \* per task: initial_key of the legacy loop
    current_key,                  \* per task: current_key of the legacy loop
    arg_key,                      \* per task: api_key argument (kwargs[key_arg])
    old_key,                      \* per task: old_key of the retry wrapper
    new_key,                      \* per task: new_key of the retry wrapper
    arg_retries,                  \* per task: retries argument
    ret,                          \* per task: value returned (Raised: an exception)
    attempts,                     \* per task: calls of the wrapped function so far
    last_error,                   \* per task: last_exception of the retry wrapper
    advances,                     \* per task: rotator advances made by the current call
    start_pos,                    \* per task: cycle_pos when the call drew its first key
    interfered,                   \* per task: another task changed pool state meanwhile
    drawn,                        \* the keys handed out by get_next_key, in lock order
    fail_events,                  \* per key: failures recorded since the last reset
    freeze_duration,              \* per key: d of the latest freeze_key, Absent once the
                                  \* key was unfrozen, enabled or manually frozen after it
    last_call,                    \* the last operator call: [op, key, ret]
    vertex_api_keys,              \* self.vertex_api_keys
    vertex_key_failure_counts,    \* self.vertex_key_failure_counts (Absent: no entry)
    singleton_instance,           \* _singleton_instance: 0 is None, n the n-th KeyManager
    singleton_lock,               \* _singleton_lock: the task holding it, or "free"
    preserved_failure_counts,     \* _preserved_failure_counts (all Absent: None or {})
    preserved_vertex_failure_counts,   \* _preserved_vertex_failure_counts
    preserved_old_api_keys_for_reset,  \* _preserved_old_api_keys_for_reset (<< >>: None or [])
    preserved_next_key_in_cycle,  \* _preserved_next_key_in_cycle (NoKey: None)
    instances_built,              \* KeyManager objects constructed so far
    built_since_reset,            \* KeyManager objects constructed since the last reset
    returned,                     \* instances get_key_manager_instance returned since the last reset
    reset_old_keys,               \* api_keys at the time of the last reset
    reset_next_key,               \* the key under the rotator's cursor when the last reset began
    mt_before,                    \* per task: before_state of its manual_trigger_precheck
    config_update_pending,        \* update_precheck_config awaits ConfigService.update_config
    last_pick,                    \* the latest draw from the current batch, forgotten when
                                  \* a precheck completes: [how, index, head, after]
    key_state_lock,               \* self.key_state_lock: "free" or the task holding it
    failure_count_lock,           \* self.failure_count_lock: "free" or the task holding it
    lk                            \* per task: its listing call, [op, pc, i]

vertexVars == <<vertex_api_keys, vertex_key_failure_counts>>
lockVars == <<key_state_lock, failure_count_lock, lk>>
preservedVars == <<preserved_failure_counts, preserved_vertex_failure_counts,
                   preserved_old_api_keys_for_reset, preserved_next_key_in_cycle>>
resetVars == <<reset_old_keys, reset_next_key>>
singVars == <<singleton_instance, singleton_lock, preservedVars, instances_built,
              built_since_reset, returned, resetVars>>
settingVars == <<enable_freeze_429, precheck_enabled, precheck_count,
                 precheck_trigger_ratio>>
manualVars == <<mt_before, config_update_pending>>
cfgVars == <<api_keys, disabled_keys, settingVars, vertexVars, lockVars, singVars, manualVars>>
rotVars == <<cycle_pos, key_usage_counter, drawn>>
failVars == <<key_failure_counts, fail_events>>
freezeVars == <<frozen_keys, manually_frozen_keys, freeze_duration>>
batchVars == <<valid_keys_batch_a, valid_keys_batch_b, current_batch_name,
               current_batch_index, batch_a_ready, batch_b_ready,
               valid_keys_used_count, valid_keys_trigger_threshold>>
bufVars == <<batchVars, last_pick>>
preVars == <<precheck_in_progress, run, bg_tasks, initial_precheck_pending>>
callVars == <<op, mode, initial_key, current_key, arg_key, old_key, new_key,
              arg_retries, ret, attempts, last_error, advances, start_pos>>
taskVars == <<pc, callVars, interfered>>

vars == <<cfgVars, rotVars, failVars, freezeVars, bufVars, preVars, taskVars,
          now, last_call>>

\* ------------------------------------------------------------------------
\* Helpers
\* ------------------------------------------------------------------------
KeySet(list) == {list[i] : i \in 1..Len(list)}

Min(a, b) == IF a <= b THEN a ELSE b

Max(a, b) == IF a >= b THEN a ELSE b

NoRun == [owner |-> "none", keys |-> << >>, res |-> << >>]

\* No draw from the batch is remembered.
NoPick == [how |-> "none", index |-> 0, head |-> NoKey, after |-> "none"]

NoCall == [op |-> "none", key |-> NoKey, ret |-> FALSE]

\* The operator call made in this step, with its return value.
Logged(name, k, r) == last_call' = [op |-> name, key |-> k, ret |-> r]

\* Another actor changed pool state: flag every other task that is inside a call.
Disturb(actor) ==
    [u \in Tasks |-> IF u # actor /\ pc[u] # "idle" THEN TRUE ELSE interfered[u]]

\* ------------------------------------------------------------------------
\* Key State Store: pure readers
\* ------------------------------------------------------------------------
is_key_disabled(k) == k \in manually_frozen_keys \/ k \in disabled_keys

is_key_frozen_strict(k) ==
    IF k \in manually_frozen_keys THEN TRUE
    ELSE IF frozen_keys[k] = Absent THEN FALSE
    ELSE IF now > frozen_keys[k] THEN FALSE
    ELSE TRUE

\* is_key_frozen's return value at the current time.
is_key_frozen(k) ==
    IF k \in manually_frozen_keys THEN TRUE
    ELSE IF frozen_keys[k] = Absent THEN FALSE
    ELSE IF now >= frozen_keys[k] THEN FALSE
    ELSE TRUE

\* is_key_frozen's side effect: an expired entry is deleted.
is_key_frozen_cleanup(k) ==
    IF k \notin manually_frozen_keys /\ frozen_keys[k] # Absent /\ now >= frozen_keys[k]
    THEN [frozen_keys EXCEPT ![k] = Absent]
    ELSE frozen_keys

is_key_valid_nofreeze(k) ==
    IF is_key_disabled(k) THEN FALSE
    ELSE key_failure_counts[k] < MAX_FAILURES

is_key_valid_countonly(k) == key_failure_counts[k] < MAX_FAILURES

is_key_valid(k) ==
    IF is_key_disabled(k) THEN FALSE
    ELSE IF is_key_frozen(k) THEN FALSE
    ELSE key_failure_counts[k] < MAX_FAILURES

\* frozen_keys after an is_key_valid call (is_key_frozen is reached only when
\* the key is not disabled).
is_key_valid_cleanup(k) ==
    IF is_key_disabled(k) THEN frozen_keys ELSE is_key_frozen_cleanup(k)

\* ------------------------------------------------------------------------
\* Rotator
\* ------------------------------------------------------------------------
NextOfCycleEmptyString(keys, pos) == IF Len(keys) = 0 THEN NoKey ELSE keys[pos + 1]

\* next(self.key_cycle): the key under the cursor; an empty cycle raises.
NextOfCycle(keys, pos) == IF Len(keys) = 0 THEN Raised ELSE keys[pos + 1]

CycleAdvanceStuck(pos, n) == pos

\* The cursor of itertools.cycle after one next().
CycleAdvance(pos, n) == IF n = 0 THEN pos ELSE (pos + 1) % n

\* The body of get_next_key under key_cycle_lock once next() has returned a key.
AdvanceRotator ==
    /\ Len(drawn) < MaxAdvances
    /\ cycle_pos' = CycleAdvance(cycle_pos, Len(api_keys))
    /\ key_usage_counter' =
           IF precheck_enabled THEN key_usage_counter + 1 ELSE key_usage_counter
    /\ drawn' = Append(drawn, NextOfCycle(api_keys, cycle_pos))

get_current_key_position ==
    IF Len(api_keys) = 0 THEN 0
    ELSE (key_usage_counter - 1) % Len(api_keys)

\* ------------------------------------------------------------------------
\* Key State Store: operator calls (each is one critical section)
\* ------------------------------------------------------------------------
FreezeUntilNow(t, d) == t

FreezeUntil(t, d) == t + d

\* The body of freeze_key under key_state_lock.
FreezeBody(k, d) ==
    /\ frozen_keys' = [frozen_keys EXCEPT ![k] = FreezeUntil(now, d)]
    /\ freeze_duration' = [freeze_duration EXCEPT ![k] = d]
    /\ UNCHANGED manually_frozen_keys

freeze_key(k, d) ==
    /\ FreezeBody(k, d)
    /\ interfered' = Disturb("operator")
    /\ UNCHANGED <<cfgVars, rotVars, failVars, bufVars, preVars, pc, callVars, now>>

UnfreezeBodyAutoOnly(k) ==
    /\ frozen_keys' = [frozen_keys EXCEPT ![k] = Absent]
    /\ freeze_duration' = [freeze_duration EXCEPT ![k] = Absent]
    /\ UNCHANGED manually_frozen_keys

UnfreezeBody(k) ==
    /\ frozen_keys' = [frozen_keys EXCEPT ![k] = Absent]
    /\ manually_frozen_keys' = manually_frozen_keys \ {k}
    /\ freeze_duration' = [freeze_duration EXCEPT ![k] = Absent]

\* unfreeze_key's return value: whether anything was unfrozen.
unfreeze_key_returns(k) == frozen_keys[k] # Absent \/ k \in manually_frozen_keys

unfreeze_key(k) ==
    /\ UnfreezeBody(k)
    /\ interfered' = Disturb("operator")
    /\ UNCHANGED <<cfgVars, rotVars, failVars, bufVars, preVars, pc, callVars, now>>

enable_key_manual_only(k) ==
    /\ manually_frozen_keys' = manually_frozen_keys \ {k}
    /\ interfered' = Disturb("operator")
    /\ UNCHANGED <<cfgVars, rotVars, failVars, bufVars, preVars, pc, callVars, now,
                   frozen_keys, freeze_duration>>

enable_key(k) ==
    /\ UnfreezeBody(k)
    /\ interfered' = Disturb("operator")
    /\ UNCHANGED <<cfgVars, rotVars, failVars, bufVars, preVars, pc, callVars, now>>

ManuallyFreezeBody(k) ==
    /\ manually_frozen_keys' = manually_frozen_keys \cup {k}
    /\ freeze_duration' = [freeze_duration EXCEPT ![k] = Absent]
    /\ UNCHANGED frozen_keys

manually_freeze_key(k) ==
    /\ ManuallyFreezeBody(k)
    /\ interfered' = Disturb("operator")
    /\ UNCHANGED <<cfgVars, rotVars, failVars, bufVars, preVars, pc, callVars, now>>

disable_key(k) ==
    /\ ManuallyFreezeBody(k)
    /\ interfered' = Disturb("operator")
    /\ UNCHANGED <<cfgVars, rotVars, failVars, bufVars, preVars, pc, callVars, now>>

\* An observation of is_key_frozen(k), with its lazy expiry.
is_key_frozen_call(k) ==
    /\ frozen_keys' = is_key_frozen_cleanup(k)
    /\ UNCHANGED <<cfgVars, rotVars, failVars, manually_frozen_keys, freeze_duration,
                   bufVars,
                   preVars, taskVars, now>>

ResetCountKeep(counts, k) == counts

ResetCount(counts, k) ==
    IF counts[k] # Absent THEN [counts EXCEPT ![k] = 0] ELSE counts

reset_key_failure_count_returns(k) == key_failure_counts[k] # Absent

reset_key_failure_count(k) ==
    /\ key_failure_counts' = ResetCount(key_failure_counts, k)
    /\ fail_events' = [fail_events EXCEPT ![k] = 0]
    /\ interfered' = Disturb("operator")
    /\ UNCHANGED <<cfgVars, rotVars, freezeVars, bufVars, preVars, pc, callVars, now>>

reset_failure_counts ==
    /\ key_failure_counts' =
           [k \in Keys |-> IF key_failure_counts[k] # Absent THEN 0 ELSE Absent]
    /\ fail_events' = [k \in Keys |-> 0]
    /\ interfered' = Disturb("operator")
    /\ UNCHANGED <<cfgVars, rotVars, freezeVars, bufVars, preVars, pc, callVars, now>>

\* handle_429_error(api_key, is_vertex = False).
Handle429Body(k) ==
    IF ~enable_freeze_429 THEN UNCHANGED freezeVars
    ELSE FreezeBody(k, KEY_FREEZE_DURATION_SECONDS)

handle_429_error_returns(k) == enable_freeze_429

handle_429_error(k) ==
    /\ Handle429Body(k)
    /\ interfered' = Disturb("operator")
    /\ UNCHANGED <<cfgVars, rotVars, failVars, bufVars, preVars, pc, callVars, now>>

\* The list get_keys_by_status files key k under.
get_keys_by_status_list(k) ==
    IF is_key_frozen(k) \/ is_key_disabled(k) THEN "frozen_keys"
    ELSE IF key_failure_counts[k] < MAX_FAILURES THEN "valid_keys"
    ELSE "invalid_keys"

\* get_keys_by_status's return value: for every key of the pool, its list.
get_keys_by_status_returns == [k \in KeySet(api_keys) |-> get_keys_by_status_list(k)]

\* get_keys_by_status: is_key_frozen is called for every key of the pool.
get_keys_by_status ==
    /\ frozen_keys' = [k \in Keys |-> IF k \in KeySet(api_keys)
                                      THEN is_key_frozen_cleanup(k)[k]
                                      ELSE frozen_keys[k]]
    /\ UNCHANGED <<cfgVars, rotVars, failVars, manually_frozen_keys, freeze_duration,
                   bufVars, preVars, taskVars, now>>

\* The clock behind datetime.now().
Tick ==
    /\ now < MaxTime
    /\ now' = now + 1
    /\ interfered' = Disturb("clock")
    /\ UNCHANGED <<cfgVars, rotVars, failVars, freezeVars, bufVars, preVars, pc,
                   callVars>>
    /\ last_call' = NoCall

\* ------------------------------------------------------------------------
\* Double buffer: readers
\* ------------------------------------------------------------------------
_get_current_batch ==
    IF current_batch_name = "A" THEN valid_keys_batch_a ELSE valid_keys_batch_b

_get_next_batch ==
    IF current_batch_name = "A" THEN valid_keys_batch_b ELSE valid_keys_batch_a

_is_current_batch_ready ==
    IF current_batch_name = "A" THEN batch_a_ready ELSE batch_b_ready

_is_next_batch_ready ==
    IF current_batch_name = "A" THEN batch_b_ready ELSE batch_a_ready

\* _calculate_precheck_trigger, for the batch that is current after the update.
_calculate_precheck_trigger(enabled, batch, ratio) ==
    IF ~enabled THEN 0
    ELSE IF Len(batch) = 0 THEN 0
    ELSE Max(1, (Len(batch) * ratio) \div 10)

\* asyncio.create_task(self._perform_precheck_async()), n times.
Spawn(n) == bg_tasks' = Min(bg_tasks + n, MaxBgTasks)

\* ------------------------------------------------------------------------
\* Per-task bookkeeping
\* ------------------------------------------------------------------------
\* Where a task goes when the selector (or handle_api_failure) hands back a value.
AfterSelect(t) == IF op[t] = "retry" THEN "rt_got_key" ELSE "done"

Return(t, value) ==
    /\ ret' = [ret EXCEPT ![t] = value]
    /\ pc' = [pc EXCEPT ![t] = AfterSelect(t)]

\* ------------------------------------------------------------------------
\* Selector: get_next_working_key
\* ------------------------------------------------------------------------
SwitchedIndexKept(idx) == idx

\* _switch_to_next_batch: self.current_batch_index = 0
SwitchedIndex(idx) == 0

ClearedSlotKept(batch) == batch

\* _switch_to_next_batch_new: the old batch's list is cleared.
ClearedSlot(batch) == << >>

TriggerReachedStrict(used, threshold) == used > threshold

\* self.valid_keys_used_count >= self.valid_keys_trigger_threshold
TriggerReached(used, threshold) == used >= threshold

BatchExhaustedLate(idx, batch) == idx > Len(batch)

\* if self.current_batch_index >= len(current_batch)
BatchExhausted(idx, batch) == idx >= Len(batch)

WrappedIndexKept(idx) == idx

\* _switch_to_next_batch_new without a ready next batch: self.current_batch_index = 0
WrappedIndex(idx) == 0

\* Lines 256-275 and _switch_to_next_batch_new: draw current_batch[index], then
\* trigger / swap / wrap. There is no await inside.
TakeFromBatch(t) ==
    LET cur == _get_current_batch
        idx1 == current_batch_index + 1
        used1 == valid_keys_used_count + 1
        trigger == /\ TriggerReached(used1, valid_keys_trigger_threshold)
                   /\ ~precheck_in_progress
                   /\ ~_is_next_batch_ready
        exhausted == BatchExhausted(idx1, cur)
        nxt == _get_next_batch
    IN  IF current_batch_index >= Len(cur)
        THEN \* IndexError
             /\ Return(t, Raised)
             /\ UNCHANGED <<bufVars, bg_tasks>>
        ELSE /\ valid_keys_used_count < MaxUsedCount
             /\ Return(t, cur[current_batch_index + 1])
             \* What the draw did after taking its key: moved on ("next"), swapped
             \* the buffers or wrapped the index; the index it read; and, for a
             \* swap or a wrap, element 0 of the batch it left as the current one;
             \* and what the draw before it did, if no precheck completed since.
             /\ last_pick' = [how |-> IF exhausted /\ _is_next_batch_ready THEN "swap"
                                      ELSE IF exhausted THEN "wrap" ELSE "next",
                              index |-> current_batch_index,
                              head |-> IF exhausted /\ _is_next_batch_ready
                                       THEN (IF Len(nxt) > 0 THEN nxt[1] ELSE NoKey)
                                       ELSE IF exhausted THEN cur[1] ELSE NoKey,
                              after |-> last_pick.how]
             /\ IF exhausted /\ _is_next_batch_ready
                THEN \* swap
                     /\ current_batch_name' = IF current_batch_name = "A" THEN "B" ELSE "A"
                     /\ current_batch_index' = SwitchedIndex(idx1)
                     /\ valid_keys_used_count' = 0
                     /\ valid_keys_batch_a' =
                            IF current_batch_name = "A"
                            THEN ClearedSlot(valid_keys_batch_a) ELSE valid_keys_batch_a
                     /\ valid_keys_batch_b' =
                            IF current_batch_name = "A"
                            THEN valid_keys_batch_b ELSE ClearedSlot(valid_keys_batch_b)
                     /\ batch_a_ready' = (current_batch_name # "A")
                     /\ batch_b_ready' = (current_batch_name = "A")
                     /\ valid_keys_trigger_threshold' =
                            _calculate_precheck_trigger(precheck_enabled, nxt,
                                                        precheck_trigger_ratio)
                     /\ Spawn(IF trigger THEN 1 ELSE 0)
                ELSE /\ current_batch_index' = IF exhausted THEN WrappedIndex(idx1) ELSE idx1
                     /\ valid_keys_used_count' = used1
                     /\ Spawn((IF trigger THEN 1 ELSE 0) + (IF exhausted THEN 1 ELSE 0))
                     /\ UNCHANGED <<valid_keys_batch_a, valid_keys_batch_b,
                                    current_batch_name, batch_a_ready, batch_b_ready,
                                    valid_keys_trigger_threshold>>

\* The first stretch of get_next_working_key (lines 236-245 and, when the batch
\* is ready, 256-275).
SelectorEntry(t) ==
    IF ~precheck_enabled
    THEN /\ pc' = [pc EXCEPT ![t] = "leg_first"]
         /\ mode' = [mode EXCEPT ![t] = "legacy"]
         /\ UNCHANGED <<ret, bufVars, bg_tasks>>
    ELSE IF Len(_get_current_batch) = 0 \/ ~_is_current_batch_ready
    THEN /\ pc' = [pc EXCEPT ![t] = "pre_start"]
         /\ mode' = [mode EXCEPT ![t] = "wait"]
         /\ UNCHANGED <<ret, bufVars, bg_tasks>>
    ELSE /\ mode' = [mode EXCEPT ![t] = "batch"]
         /\ TakeFromBatch(t)

get_next_working_key(t) ==
    /\ pc[t] = "idle"
    /\ op' = [op EXCEPT ![t] = "get_next_working_key"]
    /\ SelectorEntry(t)
    /\ interfered' = [Disturb(t) EXCEPT ![t] = FALSE]
    /\ UNCHANGED <<cfgVars, rotVars, failVars, freezeVars, precheck_in_progress, run,
                   initial_precheck_pending, initial_key, current_key, arg_key,
                   old_key, new_key, arg_retries, attempts, last_error, advances, start_pos,
                   now>>
    /\ last_call' = NoCall

\* ------------------------------------------------------------------------
\* Legacy loop: _get_next_working_key_legacy
\* ------------------------------------------------------------------------
\* initial_key = await self.get_next_key()
legacy_first(t) ==
    /\ pc[t] = "leg_first"
    /\ IF NextOfCycle(api_keys, cycle_pos) = Raised
       THEN /\ Return(t, Raised)
            /\ UNCHANGED <<rotVars, initial_key, current_key, advances, start_pos,
                           interfered>>
       ELSE /\ AdvanceRotator
            /\ initial_key' = [initial_key EXCEPT ![t] = NextOfCycle(api_keys, cycle_pos)]
            /\ current_key' = [current_key EXCEPT ![t] = NextOfCycle(api_keys, cycle_pos)]
            /\ start_pos' = [start_pos EXCEPT ![t] = cycle_pos]
            /\ advances' = [advances EXCEPT ![t] = 1]
            /\ pc' = [pc EXCEPT ![t] = "leg_check"]
            /\ interfered' = [Disturb(t) EXCEPT ![t] = FALSE]
            /\ UNCHANGED ret
    /\ UNCHANGED <<cfgVars, failVars, freezeVars, bufVars, preVars, op, mode, arg_key,
                   old_key, new_key, arg_retries, attempts, last_error, now>>
    /\ last_call' = NoCall

\* if await self.is_key_valid(current_key): return current_key
legacy_check(t) ==
    /\ pc[t] = "leg_check"
    /\ frozen_keys' = is_key_valid_cleanup(current_key[t])
    /\ IF is_key_valid(current_key[t])
       THEN Return(t, current_key[t])
       ELSE /\ pc' = [pc EXCEPT ![t] = "leg_next"]
            /\ UNCHANGED ret
    /\ UNCHANGED <<cfgVars, rotVars, failVars, manually_frozen_keys, freeze_duration,
                   bufVars, preVars,
                   op, mode, initial_key, current_key, arg_key, old_key, new_key, arg_retries,
                   attempts, last_error, advances, start_pos, interfered, now>>
    /\ last_call' = NoCall

RevisitedNever(cur, first) == FALSE

\* if current_key == initial_key
Revisited(cur, first) == cur = first

\* current_key = await self.get_next_key(); if current_key == initial_key: return
legacy_next(t) ==
    /\ pc[t] = "leg_next"
    /\ AdvanceRotator
    /\ current_key' = [current_key EXCEPT ![t] = NextOfCycle(api_keys, cycle_pos)]
    /\ advances' = [advances EXCEPT ![t] = @ + 1]
    /\ IF Revisited(NextOfCycle(api_keys, cycle_pos), initial_key[t])
       THEN Return(t, NextOfCycle(api_keys, cycle_pos))
       ELSE /\ pc' = [pc EXCEPT ![t] = "leg_check"]
            /\ UNCHANGED ret
    /\ interfered' = Disturb(t)
    /\ UNCHANGED <<cfgVars, failVars, freezeVars, bufVars, preVars, op, mode,
                   initial_key, arg_key, old_key, new_key, arg_retries, attempts, last_error,
                   start_pos, now>>
    /\ last_call' = NoCall

\* A direct call of get_next_key by a task.
get_next_key(t) ==
    /\ pc[t] = "idle"
    /\ op' = [op EXCEPT ![t] = "get_next_key"]
    /\ pc' = [pc EXCEPT ![t] = "done"]
    /\ IF NextOfCycle(api_keys, cycle_pos) = Raised
       THEN /\ ret' = [ret EXCEPT ![t] = Raised]
            /\ UNCHANGED <<rotVars, advances, start_pos>>
       ELSE /\ AdvanceRotator
            /\ ret' = [ret EXCEPT ![t] = NextOfCycle(api_keys, cycle_pos)]
            /\ advances' = [advances EXCEPT ![t] = 1]
            /\ start_pos' = [start_pos EXCEPT ![t] = cycle_pos]
    /\ interfered' = [Disturb(t) EXCEPT ![t] = FALSE]
    /\ UNCHANGED <<cfgVars, failVars, freezeVars, bufVars, preVars, mode, initial_key,
                   current_key, arg_key, old_key, new_key, arg_retries, attempts, last_error,
                   now>>
    /\ last_call' = NoCall

\* ------------------------------------------------------------------------
\* Precheck Engine
\* ------------------------------------------------------------------------
\* self.key_failure_counts.get(key, 0)
\* self.key_failure_counts.get(k, 0), on the counts map given.
FailOfIn(counts, k) == IF counts[k] = Absent THEN 0 ELSE counts[k]

FailOf(k) == FailOfIn(key_failure_counts, k)

RECURSIVE SortFromIn(_, _, _)
\* sorted(list, key = fail count), a stable sort: the keys with count v, then v + 1, ...
SortFromIn(counts, list, v) ==
    IF v > MaxFailCount THEN << >>
    ELSE SelectSeq(list, LAMBDA k : FailOfIn(counts, k) = v) \o SortFromIn(counts, list, v + 1)

SortFrom(list, v) == SortFromIn(key_failure_counts, list, v)

\* _get_precheck_keys(start_index, count), reading the counts map given.
_get_precheck_keys_in(counts, start_index, count) ==
    LET potentially_valid_keys ==
            SelectSeq(api_keys, LAMBDA k : FailOfIn(counts, k) < MAX_FAILURES)
        all_keys_with_priority == SortFromIn(counts, api_keys, 0)
        np == Len(potentially_valid_keys)
        na == Len(all_keys_with_priority)
    IN  IF Len(api_keys) = 0 \/ count <= 0 THEN << >>
        ELSE IF np >= count
        THEN [i \in 1..count |-> potentially_valid_keys[((start_index + i - 1) % np) + 1]]
        ELSE [i \in 1..Min(count, na) |->
                  all_keys_with_priority[((start_index + i - 1) % na) + 1]]

_get_precheck_keys(start_index, count) ==
    _get_precheck_keys_in(key_failure_counts, start_index, count)

PrecheckStartsUnguarded ==
    /\ precheck_enabled
    /\ Len(api_keys) > 0
    /\ Len(_get_precheck_keys(get_current_key_position, precheck_count)) > 0

\* Whether a call of _perform_precheck_async made now starts a run.
PrecheckStarts ==
    /\ ~precheck_in_progress
    /\ precheck_enabled
    /\ Len(api_keys) > 0
    /\ Len(_get_precheck_keys(get_current_key_position, precheck_count)) > 0

\* _perform_precheck_async / _perform_precheck up to the gather: refuse when a
\* run is in progress, otherwise pick the candidates and create their tasks.
PrecheckStart(owner) ==
    IF PrecheckStarts
    THEN LET keys == _get_precheck_keys(get_current_key_position, precheck_count)
         IN  /\ precheck_in_progress' = TRUE
             /\ run' = [owner |-> owner, keys |-> keys,
                        res |-> [i \in 1..Len(keys) |-> "todo"]]
    ELSE UNCHANGED <<precheck_in_progress, run>>

\* A background task created by the selector starts running.
BgPrecheckStart ==
    /\ bg_tasks > 0
    /\ bg_tasks' = bg_tasks - 1
    /\ PrecheckStart("bg")
    /\ UNCHANGED <<cfgVars, rotVars, failVars, freezeVars, bufVars,
                   initial_precheck_pending, taskVars, now>>
    /\ last_call' = NoCall

\* _perform_initial_precheck, created by __init__.
_perform_initial_precheck ==
    /\ initial_precheck_pending
    /\ initial_precheck_pending' = FALSE
    /\ IF Len(_get_current_batch) > 0
       THEN UNCHANGED <<precheck_in_progress, run>>
       ELSE PrecheckStart("bg")
    /\ UNCHANGED <<cfgVars, rotVars, failVars, freezeVars, bufVars, bg_tasks, taskVars,
                   now>>
    /\ last_call' = NoCall

SkipsCheckDisabledOnly(k) == is_key_disabled(k)

\* _precheck_single_key: if self.is_key_frozen(key) or self.is_key_disabled(key)
SkipsCheck(k) == is_key_frozen(k) \/ is_key_disabled(k)

\* _precheck_single_key up to the network call: frozen / disabled keys are skipped.
_precheck_single_key(i) ==
    /\ run.owner # "none"
    /\ i \in 1..Len(run.keys)
    /\ run.res[i] = "todo"
    /\ frozen_keys' = is_key_frozen_cleanup(run.keys[i])
    /\ run' = [run EXCEPT !.res[i] =
                  IF SkipsCheck(run.keys[i]) THEN "invalid" ELSE "flight"]
    /\ UNCHANGED <<cfgVars, rotVars, failVars, manually_frozen_keys, freeze_duration,
                   bufVars,
                   precheck_in_progress, bg_tasks, initial_precheck_pending, taskVars,
                   now>>
    /\ last_call' = NoCall

IncrementFailLost(counts, k) == counts

IncrementFail(counts, k) == [counts EXCEPT ![k] = @ + 1]

FreezesOn429Always(outcome) == outcome = "429"

\* if is_429_error and settings.ENABLE_KEY_FREEZE_ON_429
FreezesOn429(outcome) == outcome = "429" /\ enable_freeze_429

\* _validate_key_with_api once the upstream answer is in; the answer is kept
\* in the call log until the next step.
_validate_key_with_api(i, outcome) ==
    /\ run.owner # "none"
    /\ i \in 1..Len(run.keys)
    /\ run.res[i] = "flight"
    /\ LET k == run.keys[i]
       IN  IF outcome = "ok"
           THEN /\ key_failure_counts' = ResetCount(key_failure_counts, k)
                /\ fail_events' = [fail_events EXCEPT ![k] = 0]
                /\ UNCHANGED freezeVars
           ELSE IF FreezesOn429(outcome)
           THEN /\ Handle429Body(k)
                /\ UNCHANGED failVars
           ELSE /\ FailOf(k) < MaxFailCount
                /\ key_failure_counts' =
                       IF key_failure_counts[k] = Absent
                       THEN [key_failure_counts EXCEPT ![k] = 1]
                       ELSE IncrementFail(key_failure_counts, k)
                /\ fail_events' = [fail_events EXCEPT ![k] = @ + 1]
                /\ UNCHANGED freezeVars
    /\ run' = [run EXCEPT !.res[i] = IF outcome = "ok" THEN "valid" ELSE "invalid"]
    /\ interfered' = Disturb("precheck")
    /\ UNCHANGED <<cfgVars, rotVars, bufVars, precheck_in_progress, bg_tasks,
                   initial_precheck_pending, pc, callVars, now>>
    /\ last_call' = [op |-> "_validate_key_with_api", key |-> run.keys[i], ret |-> outcome]

ReleasedKept(flag) == flag

\* The finally block of _perform_precheck_async: self.precheck_in_progress = False
Released(flag) == FALSE

\* The keys of the run that validated, in keys_to_check order.
RunValidKeys ==
    LET idx == SelectSeq([i \in 1..Len(run.keys) |-> i], LAMBDA i : run.res[i] = "valid")
    IN  [j \in 1..Len(idx) |-> run.keys[idx[j]]]

NoValidKeysIgnored(valid_keys) == FALSE

\* if len(valid_keys) == 0: ... return
NoValidKeys(valid_keys) == Len(valid_keys) = 0

DiscardsResultNever == FALSE

\* elif self._is_next_batch_ready(): the result of the run is discarded.
DiscardsResult == _is_next_batch_ready

\* _perform_precheck after the gather (lines 939-983) and the finally block of
\* _perform_precheck_async.
PrecheckComplete ==
    /\ run.owner # "none"
    /\ \A i \in 1..Len(run.keys) : run.res[i] \in {"valid", "invalid"}
    /\ LET valid_keys == RunValidKeys
       IN  IF NoValidKeys(valid_keys)
           THEN UNCHANGED batchVars
           ELSE IF Len(_get_current_batch) = 0 \/ ~_is_current_batch_ready
           THEN \* _establish_new_batch_dual_buffer
                /\ valid_keys_batch_a' =
                       IF current_batch_name = "A" THEN valid_keys ELSE valid_keys_batch_a
                /\ valid_keys_batch_b' =
                       IF current_batch_name = "A" THEN valid_keys_batch_b ELSE valid_keys
                /\ current_batch_index' = 0
                /\ valid_keys_used_count' = 0
                /\ batch_a_ready' = IF current_batch_name = "A" THEN TRUE ELSE batch_a_ready
                /\ batch_b_ready' = IF current_batch_name = "A" THEN batch_b_ready ELSE TRUE
                /\ valid_keys_trigger_threshold' =
                       _calculate_precheck_trigger(precheck_enabled, valid_keys,
                                                   precheck_trigger_ratio)
                /\ UNCHANGED current_batch_name
           ELSE IF DiscardsResult
           THEN UNCHANGED batchVars
           ELSE \* _queue_next_batch_dual_buffer
                /\ valid_keys_batch_a' =
                       IF current_batch_name = "A" THEN valid_keys_batch_a ELSE valid_keys
                /\ valid_keys_batch_b' =
                       IF current_batch_name = "A" THEN valid_keys ELSE valid_keys_batch_b
                /\ batch_a_ready' = IF current_batch_name = "A" THEN batch_a_ready ELSE TRUE
                /\ batch_b_ready' = IF current_batch_name = "A" THEN TRUE ELSE batch_b_ready
                /\ UNCHANGED <<current_batch_name, current_batch_index,
                               valid_keys_used_count, valid_keys_trigger_threshold>>
    /\ last_pick' = NoPick
    /\ precheck_in_progress' = Released(precheck_in_progress)
    /\ run' = NoRun
    /\ pc' = [u \in Tasks |->
                 IF u # run.owner THEN pc[u]
                 ELSE IF op[u] = "manual_trigger_precheck" THEN "mt_after" ELSE "pre_wait"]
    /\ UNCHANGED <<cfgVars, rotVars, failVars, freezeVars, bg_tasks,
                   initial_precheck_pending, callVars, interfered, now>>
    /\ last_call' = NoCall

\* ------------------------------------------------------------------------
\* Selector, precheck mode with no usable current batch (lines 244-254)
\* ------------------------------------------------------------------------
\* await self._perform_precheck_async(): the run is made by the calling task.
selector_precheck(t) ==
    /\ pc[t] = "pre_start"
    /\ pc' = [pc EXCEPT ![t] = IF PrecheckStarts THEN "pre_running" ELSE "pre_wait"]
    /\ PrecheckStart(t)
    /\ UNCHANGED <<cfgVars, rotVars, failVars, freezeVars, bufVars, bg_tasks,
                   initial_precheck_pending, callVars, interfered, now>>
    /\ last_call' = NoCall

\* Lines 249-275 once the wait is over.
AfterWait(t) ==
    IF Len(_get_current_batch) = 0
    THEN /\ pc' = [pc EXCEPT ![t] = "leg_first"]
         /\ mode' = [mode EXCEPT ![t] = "fallback"]
         /\ UNCHANGED <<ret, bufVars, bg_tasks>>
    ELSE /\ mode' = [mode EXCEPT ![t] = "batch"]
         /\ TakeFromBatch(t)

\* _wait_for_precheck_completion finds precheck_in_progress false.
selector_after_wait(t) ==
    /\ pc[t] = "pre_wait"
    /\ ~precheck_in_progress
    /\ AfterWait(t)
    /\ UNCHANGED <<cfgVars, rotVars, failVars, freezeVars, precheck_in_progress, run,
                   initial_precheck_pending, op, initial_key, current_key, arg_key,
                   old_key, new_key, arg_retries, attempts, last_error, advances,
                   start_pos, interfered, now>>
    /\ last_call' = NoCall

\* _wait_for_precheck_completion gives up after max_wait_seconds.
selector_wait_timeout(t) ==
    /\ pc[t] = "pre_wait"
    /\ precheck_in_progress
    /\ AfterWait(t)
    /\ UNCHANGED <<cfgVars, rotVars, failVars, freezeVars, precheck_in_progress, run,
                   initial_precheck_pending, op, initial_key, current_key, arg_key,
                   old_key, new_key, arg_retries, attempts, last_error, advances,
                   start_pos, interfered, now>>
    /\ last_call' = NoCall

\* ------------------------------------------------------------------------
\* Failure Handler: handle_api_failure
\* ------------------------------------------------------------------------
\* The critical section under failure_count_lock (a missing key is a KeyError).
handle_api_failure(t, k, r) ==
    /\ pc[t] = "idle"
    /\ op' = [op EXCEPT ![t] = "handle_api_failure"]
    /\ arg_key' = [arg_key EXCEPT ![t] = k]
    /\ arg_retries' = [arg_retries EXCEPT ![t] = r]
    /\ IF key_failure_counts[k] = Absent
       THEN /\ Return(t, Raised)
            /\ UNCHANGED failVars
       ELSE /\ key_failure_counts[k] < MaxFailCount
            /\ key_failure_counts' = IncrementFail(key_failure_counts, k)
            /\ fail_events' = [fail_events EXCEPT ![k] = @ + 1]
            /\ pc' = [pc EXCEPT ![t] = "haf_select"]
            /\ UNCHANGED ret
    /\ interfered' = [Disturb(t) EXCEPT ![t] = FALSE]
    /\ UNCHANGED <<cfgVars, rotVars, freezeVars, bufVars, preVars, mode, initial_key,
                   current_key, old_key, new_key, attempts, last_error, advances,
                   start_pos, now>>
    /\ last_call' = NoCall

\* retries < settings.MAX_RETRIES fails: return "".
GiveUp(r) == ~(r < MAX_RETRIES)

\* Lines 349-352.
handle_api_failure_select(t) ==
    /\ pc[t] = "haf_select"
    /\ IF GiveUp(arg_retries[t])
       THEN /\ Return(t, NoKey)
            /\ UNCHANGED <<mode, bufVars, bg_tasks>>
       ELSE SelectorEntry(t)
    /\ UNCHANGED <<cfgVars, rotVars, failVars, freezeVars, precheck_in_progress, run,
                   initial_precheck_pending, op, initial_key, current_key, arg_key,
                   old_key, new_key, arg_retries, attempts, last_error, advances,
                   start_pos, interfered, now>>
    /\ last_call' = NoCall

\* ------------------------------------------------------------------------
\* Retry wrapper: RetryHandler.__call__ around a route handler
\* ------------------------------------------------------------------------
\* A request arrives at a route decorated with @RetryHandler.
retry_start(t) ==
    /\ pc[t] = "idle"
    /\ op' = [op EXCEPT ![t] = "retry"]
    /\ pc' = [pc EXCEPT ![t] = "rt_dep"]
    /\ UNCHANGED <<cfgVars, rotVars, failVars, freezeVars, bufVars, preVars, mode,
                   initial_key, current_key, arg_key, old_key, new_key, arg_retries, ret,
                   attempts, last_error, advances, start_pos, interfered, now>>
    /\ last_call' = NoCall

\* api_key = Depends(get_next_working_key): the key of the first attempt.
rt_dep(t) ==
    /\ pc[t] = "rt_dep"
    /\ SelectorEntry(t)
    /\ interfered' = [Disturb(t) EXCEPT ![t] = FALSE]
    /\ UNCHANGED <<cfgVars, rotVars, failVars, freezeVars, precheck_in_progress, run,
                   initial_precheck_pending, op, initial_key, current_key, arg_key,
                   old_key, new_key, arg_retries, attempts, last_error, advances, start_pos,
                   now>>
    /\ last_call' = NoCall

\* return await func(*args, **kwargs), with the upstream's answer.
rt_call(t, outcome) ==
    /\ pc[t] = "rt_call"
    /\ attempts[t] < MaxAttempts
    /\ attempts' = [attempts EXCEPT ![t] = @ + 1]
    /\ IF outcome = "ok"
       THEN /\ pc' = [pc EXCEPT ![t] = "done"]
            /\ ret' = [ret EXCEPT ![t] = "ok"]
            /\ UNCHANGED last_error
       ELSE /\ pc' = [pc EXCEPT ![t] = "rt_handle"]
            /\ last_error' = [last_error EXCEPT ![t] = outcome]
            /\ UNCHANGED ret
    /\ UNCHANGED <<cfgVars, rotVars, failVars, freezeVars, bufVars, preVars, op, mode,
                   initial_key, current_key, arg_key, old_key, new_key, arg_retries,
                   advances, start_pos, interfered, now>>
    /\ last_call' = NoCall

\* The except block up to the selector call: handle_429_error(old_key), or the
\* critical section of handle_api_failure(old_key, retries).
rt_handle(t) ==
    /\ pc[t] = "rt_handle"
    /\ old_key' = [old_key EXCEPT ![t] = arg_key[t]]
    /\ IF last_error[t] = "429" /\ enable_freeze_429
       THEN /\ Handle429Body(arg_key[t])
            /\ pc' = [pc EXCEPT ![t] = "rt_select"]
            /\ UNCHANGED <<failVars, arg_retries, ret>>
       ELSE /\ arg_retries' = [arg_retries EXCEPT ![t] = attempts[t]]
            /\ UNCHANGED freezeVars
            /\ IF key_failure_counts[arg_key[t]] = Absent
               THEN /\ Return(t, Raised)
                    /\ UNCHANGED failVars
               ELSE /\ key_failure_counts[arg_key[t]] < MaxFailCount
                    /\ key_failure_counts' = IncrementFail(key_failure_counts, arg_key[t])
                    /\ fail_events' = [fail_events EXCEPT ![arg_key[t]] = @ + 1]
                    /\ pc' = [pc EXCEPT ![t] = "haf_select"]
                    /\ UNCHANGED ret
    /\ interfered' = [Disturb(t) EXCEPT ![t] = FALSE]
    /\ UNCHANGED <<cfgVars, rotVars, bufVars, preVars, op, mode, initial_key,
                   current_key, arg_key, new_key, attempts, last_error, advances,
                   start_pos, now>>
    /\ last_call' = NoCall

\* new_key = await key_manager.get_next_working_key(), after a 429.
rt_select(t) ==
    /\ pc[t] = "rt_select"
    /\ SelectorEntry(t)
    /\ UNCHANGED <<cfgVars, rotVars, failVars, freezeVars, precheck_in_progress, run,
                   initial_precheck_pending, op, initial_key, current_key, arg_key,
                   old_key, new_key, arg_retries, attempts, last_error, advances,
                   start_pos, interfered, now>>
    /\ last_call' = NoCall

RetriesLeftAlways(a) == TRUE

\* for attempt in range(settings.MAX_RETRIES): another iteration after a attempts.
RetriesLeft(a) == a < MAX_RETRIES

\* The wrapper takes the key it was handed: the injected key before the first
\* attempt, new_key in the except block (swap it in and loop, or break and raise).
rt_got_key(t) ==
    /\ pc[t] = "rt_got_key"
    /\ IF ret[t] = Raised
       THEN /\ pc' = [pc EXCEPT ![t] = "done"]
            /\ UNCHANGED <<arg_key, new_key, ret>>
       ELSE IF attempts[t] = 0
       THEN /\ pc' = [pc EXCEPT ![t] = "rt_call"]
            /\ arg_key' = [arg_key EXCEPT ![t] = ret[t]]
            /\ ret' = [ret EXCEPT ![t] = NoKey]
            /\ UNCHANGED new_key
       ELSE /\ new_key' = [new_key EXCEPT ![t] = ret[t]]
            /\ arg_key' = [arg_key EXCEPT ![t] = IF ret[t] # NoKey THEN ret[t] ELSE @]
            /\ IF ret[t] # NoKey /\ RetriesLeft(attempts[t])
               THEN /\ pc' = [pc EXCEPT ![t] = "rt_call"]
                    /\ ret' = [ret EXCEPT ![t] = NoKey]
               ELSE /\ pc' = [pc EXCEPT ![t] = "done"]
                    /\ ret' = [ret EXCEPT ![t] = "reraised"]
    /\ UNCHANGED <<cfgVars, rotVars, failVars, freezeVars, bufVars, preVars, op, mode,
                   initial_key, current_key, old_key, arg_retries, attempts, last_error,
                   advances, start_pos, interfered, now>>
    /\ last_call' = NoCall

\* The caller takes the result; the task is free again.
Finish(t) ==
    /\ pc[t] = "done"
    /\ pc' = [pc EXCEPT ![t] = "idle"]
    /\ op' = [op EXCEPT ![t] = "none"]
    /\ mode' = [mode EXCEPT ![t] = "none"]
    /\ initial_key' = [initial_key EXCEPT ![t] = NoKey]
    /\ current_key' = [current_key EXCEPT ![t] = NoKey]
    /\ arg_key' = [arg_key EXCEPT ![t] = NoKey]
    /\ old_key' = [old_key EXCEPT ![t] = NoKey]
    /\ new_key' = [new_key EXCEPT ![t] = NoKey]
    /\ arg_retries' = [arg_retries EXCEPT ![t] = 0]
    /\ ret' = [ret EXCEPT ![t] = NoKey]
    /\ attempts' = [attempts EXCEPT ![t] = 0]
    /\ last_error' = [last_error EXCEPT ![t] = "none"]
    /\ advances' = [advances EXCEPT ![t] = 0]
    /\ start_pos' = [start_pos EXCEPT ![t] = 0]
    /\ interfered' = [interfered EXCEPT ![t] = FALSE]
    /\ UNCHANGED <<cfgVars, rotVars, failVars, freezeVars, bufVars, preVars, now>>
    /\ last_call' = NoCall

\* ------------------------------------------------------------------------
\* Initial state: a freshly constructed KeyManager (__init__)
\* ------------------------------------------------------------------------
NoCounts == [k \in Keys |-> Absent]

NoSnapshot ==
    [current_batch_name |-> "none", current_batch_valid_count |-> 0,
     valid_keys_passed_count |-> 0, trigger_threshold |-> 0,
     current_batch_ready |-> FALSE, next_batch_ready |-> FALSE]

InitPoolWith(lists, enabled, freeze429, inst) ==
    /\ mt_before = [t \in Tasks |-> NoSnapshot]
    /\ config_update_pending = FALSE
    /\ vertex_api_keys = << >>
    /\ vertex_key_failure_counts = NoCounts
    /\ key_state_lock = "free"
    /\ failure_count_lock = "free"
    /\ lk = [t \in Tasks |-> NoListing]
    /\ singleton_instance = inst
    /\ singleton_lock = "free"
    /\ preserved_failure_counts = NoCounts
    /\ preserved_vertex_failure_counts = NoCounts
    /\ preserved_old_api_keys_for_reset = << >>
    /\ preserved_next_key_in_cycle = NoKey
    /\ instances_built = inst
    /\ built_since_reset = inst
    /\ returned = {}
    /\ reset_old_keys = << >>
    /\ reset_next_key = NoKey
    /\ api_keys \in lists
    /\ cycle_pos = 0
    /\ key_usage_counter = 0
    /\ drawn = << >>
    /\ key_failure_counts = [k \in Keys |-> IF k \in KeySet(api_keys) THEN 0 ELSE Absent]
    /\ fail_events = [k \in Keys |-> 0]
    /\ frozen_keys = [k \in Keys |-> Absent]
    /\ freeze_duration = [k \in Keys |-> Absent]
    /\ manually_frozen_keys = {}
    /\ disabled_keys = {}
    /\ now = 0
    /\ enable_freeze_429 \in freeze429
    /\ precheck_enabled \in enabled
    /\ precheck_count = 2
    /\ precheck_trigger_ratio = 5
    /\ precheck_in_progress = FALSE
    /\ valid_keys_batch_a = << >>
    /\ valid_keys_batch_b = << >>
    /\ current_batch_name = "A"
    /\ current_batch_index = 0
    /\ batch_a_ready = FALSE
    /\ batch_b_ready = FALSE
    /\ valid_keys_used_count = 0
    /\ valid_keys_trigger_threshold = 0
    /\ last_pick = NoPick
    /\ run = NoRun
    /\ bg_tasks = 0
    /\ initial_precheck_pending = (precheck_enabled /\ Len(api_keys) > 0)
    /\ pc = [t \in Tasks |-> "idle"]
    /\ op = [t \in Tasks |-> "none"]
    /\ mode = [t \in Tasks |-> "none"]
    /\ initial_key = [t \in Tasks |-> NoKey]
    /\ current_key = [t \in Tasks |-> NoKey]
    /\ arg_key = [t \in Tasks |-> NoKey]
    /\ old_key = [t \in Tasks |-> NoKey]
    /\ new_key = [t \in Tasks |-> NoKey]
    /\ arg_retries = [t \in Tasks |-> 0]
    /\ ret = [t \in Tasks |-> NoKey]
    /\ attempts = [t \in Tasks |-> 0]
    /\ last_error = [t \in Tasks |-> "none"]
    /\ advances = [t \in Tasks |-> 0]
    /\ start_pos = [t \in Tasks |-> 0]
    /\ interfered = [t \in Tasks |-> FALSE]
    /\ last_call = NoCall

\* A pool whose KeyManager has been constructed by the first
\* get_key_manager_instance call.
InitPool(lists, enabled, freeze429) == InitPoolWith(lists, enabled, freeze429, 1)

\* ------------------------------------------------------------------------
\* SpecOps: the Key State Store under operator calls, failures and the clock
\* ------------------------------------------------------------------------
FreezeDurations == {1, KEY_FREEZE_DURATION_SECONDS}

InitOps == InitPool({<<"k1", "k2">>}, {FALSE}, BOOLEAN)

NextOps ==
    \/ \E k \in KeySet(api_keys) :
           freeze_key(k, KEY_FREEZE_DURATION_SECONDS) /\ Logged("freeze_key", k, TRUE)
    \/ \E k \in KeySet(api_keys) :
           unfreeze_key(k) /\ Logged("unfreeze_key", k, unfreeze_key_returns(k))
    \/ \E k \in KeySet(api_keys) :
           enable_key(k) /\ Logged("enable_key", k, unfreeze_key_returns(k))
    \/ \E k \in KeySet(api_keys) :
           manually_freeze_key(k) /\ Logged("manually_freeze_key", k, TRUE)
    \/ \E k \in KeySet(api_keys) :
           disable_key(k) /\ Logged("disable_key", k, TRUE)
    \/ \E k \in KeySet(api_keys) :
           is_key_frozen_call(k) /\ Logged("is_key_frozen", k, is_key_frozen(k))
    \/ \E k \in KeySet(api_keys) :
           reset_key_failure_count(k)
           /\ Logged("reset_key_failure_count", k, reset_key_failure_count_returns(k))
    \/ reset_failure_counts /\ Logged("reset_failure_counts", NoKey, TRUE)
    \/ get_keys_by_status
       /\ Logged("get_keys_by_status",
                 IF last_call.op = "reset_key_failure_count" THEN last_call.key ELSE NoKey,
                 get_keys_by_status_returns)
    \/ \E k \in KeySet(api_keys) :
           handle_429_error(k)
           /\ Logged("handle_429_error", k, handle_429_error_returns(k))
    \/ \E k \in KeySet(api_keys) : handle_api_failure("t1", k, MAX_RETRIES)
    \/ handle_api_failure_select("t1")
    \/ Finish("t1")
    \/ Tick

SpecOps == InitOps /\ [][NextOps]_vars

\* ------------------------------------------------------------------------
\* SpecLegacy: precheck disabled; concurrent selector calls, rotator draws and
\* failure reports, with keys being disabled meanwhile
\* ------------------------------------------------------------------------
InitLegacy == InitPool(KeyLists, {FALSE}, {TRUE})

NextLegacy ==
    \/ get_next_working_key("t1")
    \/ get_next_key("t2")
    \/ \E t \in Tasks : legacy_first(t)
    \/ \E t \in Tasks : legacy_check(t)
    \/ \E t \in Tasks : legacy_next(t)
    \/ \E k \in KeySet(api_keys) : handle_api_failure("t1", k, 1)
    \/ \E k \in KeySet(api_keys) : handle_api_failure("t2", k, MAX_RETRIES)
    \/ \E t \in Tasks : handle_api_failure_select(t)
    \/ \E t \in Tasks : Finish(t)
    \/ \E k \in KeySet(api_keys) : disable_key(k) /\ UNCHANGED last_call

SpecLegacy == InitLegacy /\ [][NextLegacy]_vars

\* ------------------------------------------------------------------------
\* SpecFreeze: freezing, unfreezing, disabling and enabling keys while the clock
\* runs and failures are reported. Every call that changes the freeze state is
\* logged with the list get_keys_by_status filed the key under just before it;
\* an observation is logged with its return value.
\* ------------------------------------------------------------------------
\* What the log keeps of a call that undoes the call `first` on k: the list k was
\* filed under before `first` when `first` on k is the call just before it.
PairedBefore(first, k) ==
    IF last_call.op = first /\ last_call.key = k THEN last_call.ret ELSE "unpaired"

InitFreeze == InitPool({<<"k1", "k2">>}, {FALSE}, {TRUE})

NextFreeze ==
    \/ \E k \in KeySet(api_keys), d \in FreezeDurations :
           freeze_key(k, d) /\ Logged("freeze_key", k, get_keys_by_status_list(k))
    \/ \E k \in KeySet(api_keys) :
           unfreeze_key(k) /\ Logged("unfreeze_key", k, PairedBefore("freeze_key", k))
    \/ \E k \in KeySet(api_keys) :
           manually_freeze_key(k)
           /\ Logged("manually_freeze_key", k, get_keys_by_status_list(k))
    \/ \E k \in KeySet(api_keys) :
           disable_key(k) /\ Logged("disable_key", k, get_keys_by_status_list(k))
    \/ \E k \in KeySet(api_keys) :
           enable_key(k) /\ Logged("enable_key", k, PairedBefore("disable_key", k))
    \/ \E k \in KeySet(api_keys) :
           is_key_frozen_call(k) /\ Logged("is_key_frozen", k, is_key_frozen(k))
    \/ \E k \in KeySet(api_keys) : handle_api_failure("t1", k, MAX_RETRIES)
    \/ handle_api_failure_select("t1")
    \/ Finish("t1")
    \/ Tick

SpecFreeze == InitFreeze /\ [][NextFreeze]_vars

\* ------------------------------------------------------------------------
\* Spec: precheck enabled or disabled; selector calls and rotator draws while
\* the precheck engine fills the double buffer and an operator disables keys
\* ------------------------------------------------------------------------
Outcomes == {"ok", "err"}

Init == InitPool({<< >>, <<"k1", "k2">>}, BOOLEAN, {FALSE})

Next ==
    \/ get_next_working_key("t1")
    \/ \E t \in Tasks : selector_precheck(t)
    \/ \E t \in Tasks : selector_after_wait(t)
    \/ \E t \in Tasks : selector_wait_timeout(t)
    \/ \E t \in Tasks : legacy_first(t)
    \/ \E t \in Tasks : legacy_check(t)
    \/ \E t \in Tasks : legacy_next(t)
    \/ \E t \in Tasks : Finish(t)
    \/ _perform_initial_precheck
    \/ BgPrecheckStart
    \/ \E i \in 1..Len(run.keys) : _precheck_single_key(i)
    \/ \E i \in 1..Len(run.keys), o \in Outcomes : _validate_key_with_api(i, o)
    \/ PrecheckComplete
    \/ \E k \in KeySet(api_keys) : disable_key(k) /\ UNCHANGED last_call

Spec == Init /\ [][Next]_vars

\* ------------------------------------------------------------------------
\* SpecEmpty: a pool constructed with no keys, precheck enabled or disabled
\* ------------------------------------------------------------------------
InitEmpty == InitPool({<< >>}, BOOLEAN, BOOLEAN)

\* The steps a task inside a call can take on such a pool.
EmptyPoolStep(t) ==
    \/ selector_precheck(t)
    \/ selector_after_wait(t)
    \/ legacy_first(t)
    \/ rt_dep(t)
    \/ rt_got_key(t)

NextEmpty ==
    \/ \E t \in Tasks : get_next_working_key(t)
    \/ \E t \in Tasks : get_next_key(t)
    \/ \E t \in Tasks : retry_start(t)
    \/ \E t \in Tasks : EmptyPoolStep(t)
    \/ \E t \in Tasks : Finish(t)
    \/ Tick

SpecEmpty == InitEmpty /\ [][NextEmpty]_vars

\* ------------------------------------------------------------------------
\* SpecRetry: precheck disabled; a request under the retry wrapper while
\* another request takes keys from the selector
\* ------------------------------------------------------------------------
RetryOutcomes == {"ok", "err", "429"}

InitRetry == InitPool({<<"k1", "k2">>, <<"k1", "k2", "k3">>}, {FALSE}, BOOLEAN)

NextRetry ==
    \/ retry_start("t1")
    \/ get_next_working_key("t2")
    \/ \E t \in Tasks : rt_dep(t)
    \/ \E t \in Tasks, o \in RetryOutcomes : rt_call(t, o)
    \/ \E t \in Tasks : rt_handle(t)
    \/ \E t \in Tasks : rt_select(t)
    \/ \E t \in Tasks : rt_got_key(t)
    \/ \E t \in Tasks : handle_api_failure_select(t)
    \/ \E t \in Tasks : legacy_first(t)
    \/ \E t \in Tasks : legacy_check(t)
    \/ \E t \in Tasks : legacy_next(t)
    \/ \E t \in Tasks : Finish(t)
    \/ Tick

SpecRetry == InitRetry /\ [][NextRetry]_vars

\* ------------------------------------------------------------------------
\* Operator precheck: manual_trigger_precheck and update_precheck_config
\* ------------------------------------------------------------------------
\* before_state / after_state of manual_trigger_precheck.
BufferSnapshot ==
    [current_batch_name |-> current_batch_name,
     current_batch_valid_count |-> Len(_get_current_batch),
     valid_keys_passed_count |-> valid_keys_used_count,
     trigger_threshold |-> valid_keys_trigger_threshold,
     current_batch_ready |-> _is_current_batch_ready,
     next_batch_ready |-> _is_next_batch_ready]

RefusesWhenDisabledOnly == ~precheck_enabled

\* The two early returns of manual_trigger_precheck.
Refuses == ~precheck_enabled \/ precheck_in_progress

CountsForManualPrecheckAlways ==
    LET first5 == {api_keys[i] : i \in 1..Min(5, Len(api_keys))}
    IN  [k \in Keys |-> IF k \in first5 THEN 0 ELSE key_failure_counts[k]]

\* Lines 1289-1306: when no key is below MAX_FAILURES the counts of the first
\* five keys are reset.
CountsForManualPrecheck ==
    IF \E k \in KeySet(api_keys) : FailOf(k) < MAX_FAILURES
    THEN key_failure_counts
    ELSE LET first5 == {api_keys[i] : i \in 1..Min(5, Len(api_keys))}
         IN  [k \in Keys |-> IF k \in first5 THEN 0 ELSE key_failure_counts[k]]

\* manual_trigger_precheck up to the gather of its own run. No step of another
\* task can fall between the entry checks and the start of the run: the locks
\* taken on the way are never held across a suspension, and
\* _perform_precheck_async is awaited directly.
manual_trigger_precheck(t) ==
    /\ pc[t] = "idle"
    /\ op' = [op EXCEPT ![t] = "manual_trigger_precheck"]
    /\ IF Refuses
       THEN /\ pc' = [pc EXCEPT ![t] = "done"]
            /\ ret' = [ret EXCEPT ![t] = "refused"]
            /\ last_call' = [op |-> "manual_trigger_precheck", key |-> NoKey,
                             ret |-> [success |-> FALSE,
                                      message |-> IF ~precheck_enabled
                                                  THEN "disabled" ELSE "in_progress",
                                      before |-> NoSnapshot, after |-> NoSnapshot]]
            /\ UNCHANGED <<failVars, precheck_in_progress, run, mt_before>>
       ELSE /\ mt_before' = [mt_before EXCEPT ![t] = BufferSnapshot]
            /\ key_failure_counts' = CountsForManualPrecheck
            /\ fail_events' = [k \in Keys |->
                                  IF key_failure_counts'[k] = key_failure_counts[k]
                                  THEN fail_events[k] ELSE 0]
            /\ LET keys == _get_precheck_keys_in(CountsForManualPrecheck,
                                                 get_current_key_position, precheck_count)
               IN  IF Len(api_keys) > 0 /\ Len(keys) > 0
                   THEN /\ precheck_in_progress' = TRUE
                        /\ run' = [owner |-> t, keys |-> keys,
                                   res |-> [i \in 1..Len(keys) |-> "todo"]]
                        /\ pc' = [pc EXCEPT ![t] = "pre_running"]
                   ELSE /\ pc' = [pc EXCEPT ![t] = "mt_after"]
                        /\ UNCHANGED <<precheck_in_progress, run>>
            /\ UNCHANGED ret
            /\ last_call' = NoCall
    /\ interfered' = [Disturb(t) EXCEPT ![t] = FALSE]
    /\ UNCHANGED <<api_keys, disabled_keys, settingVars, vertexVars, lockVars, singVars,
                   config_update_pending, rotVars, freezeVars, bufVars, bg_tasks,
                   initial_precheck_pending, mode, initial_key, current_key, arg_key,
                   old_key, new_key, arg_retries, attempts, last_error, advances,
                   start_pos, now>>

\* manual_trigger_precheck after its run: the wait loop ends when
\* precheck_in_progress is clear or after 30 seconds; after_state is taken and
\* the result returned.
manual_trigger_return(t) ==
    /\ pc[t] = "mt_after"
    /\ pc' = [pc EXCEPT ![t] = "done"]
    /\ ret' = [ret EXCEPT ![t] = "success"]
    /\ last_call' = [op |-> "manual_trigger_precheck", key |-> NoKey,
                     ret |-> [success |-> TRUE, message |-> "done",
                              before |-> mt_before[t], after |-> BufferSnapshot]]
    /\ mt_before' = [mt_before EXCEPT ![t] = NoSnapshot]
    /\ UNCHANGED <<api_keys, disabled_keys, settingVars, vertexVars, lockVars, singVars,
                   config_update_pending, rotVars, failVars, freezeVars, bufVars, preVars,
                   op, mode, initial_key, current_key, arg_key, old_key, new_key,
                   arg_retries, attempts, last_error, advances, start_pos, interfered,
                   now>>

\* update_precheck_config(enabled = e, trigger_ratio = r), r in tenths, up to
\* the await of ConfigService.update_config; a call that changes no setting
\* (config_changed stays False) does nothing. One call is in flight at a time.
update_precheck_config(e, r) ==
    /\ ~config_update_pending
    /\ e # precheck_enabled \/ r # precheck_trigger_ratio
    /\ precheck_enabled' = e
    /\ precheck_trigger_ratio' =
           IF r # precheck_trigger_ratio THEN Max(1, Min(10, r)) ELSE precheck_trigger_ratio
    /\ config_update_pending' = TRUE
    /\ UNCHANGED <<api_keys, disabled_keys, enable_freeze_429, precheck_count,
                   vertexVars, lockVars, singVars, mt_before, rotVars,
                   failVars, freezeVars, bufVars, preVars, taskVars, now>>
    /\ last_call' = NoCall

\* update_precheck_config once the configuration is saved (lines 1232-1249).
update_precheck_config_saved ==
    /\ config_update_pending
    /\ config_update_pending' = FALSE
    /\ IF precheck_enabled /\ ~(Len(api_keys) > 0)
       THEN /\ precheck_enabled' = FALSE
            /\ UNCHANGED <<bufVars, bg_tasks>>
       ELSE IF precheck_enabled
       THEN /\ valid_keys_trigger_threshold' =
                   _calculate_precheck_trigger(precheck_enabled, _get_current_batch,
                                               precheck_trigger_ratio)
            /\ Spawn(IF ~precheck_in_progress THEN 1 ELSE 0)
            /\ UNCHANGED <<precheck_enabled, valid_keys_batch_a, valid_keys_batch_b,
                           current_batch_name, current_batch_index, batch_a_ready,
                           batch_b_ready, valid_keys_used_count, last_pick>>
       ELSE UNCHANGED <<precheck_enabled, bufVars, bg_tasks>>
    /\ UNCHANGED <<api_keys, disabled_keys, enable_freeze_429, precheck_count,
                   precheck_trigger_ratio, vertexVars, lockVars, singVars, mt_before, rotVars,
                   failVars, freezeVars, precheck_in_progress, run,
                   initial_precheck_pending, taskVars, now>>
    /\ last_call' = NoCall

\* ------------------------------------------------------------------------
\* SpecPrecheck: an operator triggers prechecks by hand and changes the
\* trigger ratio while the initial and the background prechecks run.
\* ------------------------------------------------------------------------
TriggerRatios == {5, 10}

InitPrecheck == InitPool({<<"k1", "k2">>}, BOOLEAN, {FALSE})

NextPrecheck ==
    \/ manual_trigger_precheck("t1")
    \/ manual_trigger_return("t1")
    \/ Finish("t1")
    \/ _perform_initial_precheck
    \/ BgPrecheckStart
    \/ \E i \in 1..Len(run.keys) : _precheck_single_key(i)
    \/ \E i \in 1..Len(run.keys), o \in Outcomes : _validate_key_with_api(i, o)
    \/ PrecheckComplete
    \/ \E r \in TriggerRatios : update_precheck_config(precheck_enabled, r)
    \/ update_precheck_config_saved

SpecPrecheck == InitPrecheck /\ [][NextPrecheck]_vars

\* ------------------------------------------------------------------------
\* Listing calls and their locks: get_keys_by_status and
\* get_keys_by_status_paginated. Each `async with` is a step of its own.
\* ------------------------------------------------------------------------
ListingOps == {"get_keys_by_status", "page_valid", "page_invalid", "page_frozen"}

\* The lock a listing call takes first and keeps: failure_count_lock (lines
\* 381, 431, 460) or, for the frozen page, key_state_lock (line 484).
OuterLock(o) == IF o = "page_frozen" THEN "key_state_lock" ELSE "failure_count_lock"

InnerLock(o) == IF o = "page_frozen" THEN "failure_count_lock" ELSE "key_state_lock"

LockHolder(name) == IF name = "key_state_lock" THEN key_state_lock ELSE failure_count_lock

\* Whether the loop of call o gets as far as its frozen / disabled checks on key k.
Examined(o, k) ==
    IF o = "page_valid" THEN FailOf(k) < MAX_FAILURES
    ELSE IF o = "page_invalid" THEN FailOf(k) >= MAX_FAILURES
    ELSE TRUE

RECURSIVE NextExamined(_, _)
\* The index of the first key at or after index i that call o examines.
NextExamined(o, i) ==
    IF i > Len(api_keys) THEN Len(api_keys) + 1
    ELSE IF Examined(o, api_keys[i]) THEN i
    ELSE NextExamined(o, i + 1)

\* The entries the frozen page reads a fail count for: every manually frozen
\* key, then every entry of frozen_keys that has not expired.
FrozenVisits ==
    Cardinality(manually_frozen_keys)
    + Cardinality({k \in Keys : frozen_keys[k] # Absent /\ ~(now >= frozen_keys[k])})

\* The frozen page deletes the expired entries before it releases the lock.
ExpiredRemoved ==
    [k \in Keys |-> IF frozen_keys[k] # Absent /\ now >= frozen_keys[k]
                    THEN Absent ELSE frozen_keys[k]]

SetLock(name, value) ==
    IF name = "key_state_lock"
    THEN key_state_lock' = value /\ UNCHANGED failure_count_lock
    ELSE failure_count_lock' = value /\ UNCHANGED key_state_lock

listingFrame == <<api_keys, disabled_keys, settingVars, vertexVars, singVars, manualVars,
                  rotVars, failVars, manually_frozen_keys, freeze_duration, bufVars,
                  preVars, taskVars, now, last_call>>

\* A task calls get_keys_by_status or get_keys_by_status_paginated(key_type).
listing_call(t, o) ==
    /\ lk[t].pc = "idle"
    /\ lk' = [lk EXCEPT ![t] = [op |-> o, pc |-> "outer", i |-> 0]]
    /\ UNCHANGED <<key_state_lock, failure_count_lock, frozen_keys, listingFrame>>

\* The call's first `async with`.
listing_acquire_outer(t) ==
    /\ lk[t].pc = "outer"
    /\ LockHolder(OuterLock(lk[t].op)) = "free"
    /\ SetLock(OuterLock(lk[t].op), t)
    /\ LET first == IF lk[t].op = "page_frozen" THEN FrozenVisits
                    ELSE NextExamined(lk[t].op, 1)
           none == IF lk[t].op = "page_frozen" THEN first = 0
                   ELSE first > Len(api_keys)
       IN  lk' = [lk EXCEPT ![t].pc = IF none THEN "release" ELSE "want1", ![t].i = first]
    /\ UNCHANGED <<frozen_keys, listingFrame>>

\* The `async with` inside the loop: is_key_frozen / is_key_disabled take
\* key_state_lock, the frozen page takes failure_count_lock.
listing_acquire_inner(t) ==
    /\ lk[t].pc \in {"want1", "want2"}
    /\ LockHolder(InnerLock(lk[t].op)) = "free"
    /\ SetLock(InnerLock(lk[t].op), t)
    /\ lk' = [lk EXCEPT ![t].pc = IF lk[t].pc = "want1" THEN "in1" ELSE "in2"]
    /\ UNCHANGED <<frozen_keys, listingFrame>>

\* The inner critical section ends and the loop goes on: get_keys_by_status
\* calls is_key_disabled then is_key_frozen on every key; the valid and invalid
\* pages call is_key_frozen and, if it is false, is_key_disabled; the frozen
\* page reads one fail count per entry.
listing_release_inner(t) ==
    /\ lk[t].pc \in {"in1", "in2"}
    /\ SetLock(InnerLock(lk[t].op), "free")
    /\ IF lk[t].op = "page_frozen"
       THEN /\ lk' = [lk EXCEPT ![t].i = @ - 1,
                                ![t].pc = IF lk[t].i - 1 > 0 THEN "want1" ELSE "release"]
            /\ UNCHANGED frozen_keys
       ELSE LET k == api_keys[lk[t].i]
                frozen_check == IF lk[t].op = "get_keys_by_status"
                                THEN lk[t].pc = "in2" ELSE lk[t].pc = "in1"
                second == /\ lk[t].pc = "in1"
                          /\ \/ lk[t].op = "get_keys_by_status"
                             \/ ~is_key_frozen(k)
                next == NextExamined(lk[t].op, lk[t].i + 1)
            IN  /\ frozen_keys' = IF frozen_check THEN is_key_frozen_cleanup(k)
                                  ELSE frozen_keys
                /\ lk' = IF second
                         THEN [lk EXCEPT ![t].pc = "want2"]
                         ELSE [lk EXCEPT ![t].i = next,
                                         ![t].pc = IF next > Len(api_keys)
                                                   THEN "release" ELSE "want1"]
    /\ UNCHANGED listingFrame

\* The call leaves its outer `async with` and returns.
listing_release_outer(t) ==
    /\ lk[t].pc = "release"
    /\ SetLock(OuterLock(lk[t].op), "free")
    /\ frozen_keys' = IF lk[t].op = "page_frozen" THEN ExpiredRemoved ELSE frozen_keys
    /\ lk' = [lk EXCEPT ![t] = NoListing]
    /\ UNCHANGED listingFrame

\* ------------------------------------------------------------------------
\* SpecLocks: two tasks list the keys by status while an operator disables
\* keys and failures are reported; the calls that take one lock run when that
\* lock is free.
\* ------------------------------------------------------------------------
InitLocks == InitPool({<<"k1", "k2">>}, {FALSE}, {TRUE})

NextLocks ==
    \/ \E t \in Tasks, o \in ListingOps : listing_call(t, o)
    \/ \E t \in Tasks : listing_acquire_outer(t)
    \/ \E t \in Tasks : listing_acquire_inner(t)
    \/ \E t \in Tasks : listing_release_inner(t)
    \/ \E t \in Tasks : listing_release_outer(t)
    \/ \E k \in KeySet(api_keys) :
          key_state_lock = "free" /\ disable_key(k) /\ UNCHANGED last_call
    \/ \E k \in KeySet(api_keys) :
          key_state_lock = "free" /\ handle_429_error(k) /\ UNCHANGED last_call
    \/ \E k \in KeySet(api_keys) :
          failure_count_lock = "free" /\ handle_api_failure("t1", k, MAX_RETRIES)
    \/ handle_api_failure_select("t1")
    \/ Finish("t1")

SpecLocks == InitLocks /\ [][NextLocks]_vars

\* ------------------------------------------------------------------------
\* SpecEngine: the precheck engine on a three-key pool. An operator triggers
\* runs by hand and disables key k1, and every validation can succeed, hit a
\* 429 or fail otherwise, with freeze-on-429 enabled or not.
\* ------------------------------------------------------------------------
EngineOutcomes == {"ok", "429", "err"}

InitEngine == InitPool({<<"k1", "k2", "k3">>}, {TRUE}, BOOLEAN)

NextEngine ==
    \/ manual_trigger_precheck("t1")
    \/ manual_trigger_return("t1")
    \/ \E t \in Tasks : Finish(t)
    \/ _perform_initial_precheck
    \/ \E i \in 1..Len(run.keys) : _precheck_single_key(i)
    \/ \E i \in 1..Len(run.keys), o \in EngineOutcomes : _validate_key_with_api(i, o)
    \/ PrecheckComplete
    \/ disable_key("k1") /\ UNCHANGED last_call

SpecEngine == InitEngine /\ [][NextEngine]_vars

\* ------------------------------------------------------------------------
\* SpecRelease: the precheck engine on a two-key pool, with every step of a
\* run scheduled fairly: the event loop runs each created task, and every
\* upstream validation call returns or raises.
\* ------------------------------------------------------------------------
InitRelease == InitPool({<<"k1", "k2">>}, {TRUE}, BOOLEAN)

SpecRelease ==
    /\ InitRelease
    /\ [][NextEngine]_vars
    /\ WF_vars(\E i \in 1..Len(run.keys) : _precheck_single_key(i))
    /\ WF_vars(\E i \in 1..Len(run.keys), o \in EngineOutcomes :
                  _validate_key_with_api(i, o))
    /\ WF_vars(PrecheckComplete)

\* ------------------------------------------------------------------------
\* SpecWalk: a request after another selects keys from a three-key pool in
\* precheck mode (count 2) while every validation succeeds and no key is ever
\* frozen or disabled; selections go on and every task is scheduled. Requests
\* arrive no faster than prechecks finish: a request is made when no precheck
\* is waiting to start or running. In SpecWalkAnyPace requests arrive at any
\* moment.
\* ------------------------------------------------------------------------
WalkOutcomes == {"ok"}

InitWalk == InitPool({<<"k1", "k2", "k3">>}, {TRUE}, {TRUE})

PrecheckIdle == bg_tasks = 0 /\ run.owner = "none"

WalkSteps ==
    \/ selector_precheck("t1")
    \/ selector_after_wait("t1")
    \/ Finish("t1")
    \/ _perform_initial_precheck
    \/ BgPrecheckStart
    \/ \E i \in 1..Len(run.keys) : _precheck_single_key(i)
    \/ \E i \in 1..Len(run.keys), o \in WalkOutcomes : _validate_key_with_api(i, o)
    \/ PrecheckComplete

NextWalk ==
    \/ PrecheckIdle /\ get_next_working_key("t1")
    \/ WalkSteps

NextWalkAnyPace ==
    \/ get_next_working_key("t1")
    \/ WalkSteps

SpecWalk ==
    /\ InitWalk
    /\ [][NextWalk]_vars
    /\ WF_vars(PrecheckIdle /\ get_next_working_key("t1"))
    /\ WF_vars(selector_precheck("t1"))
    /\ WF_vars(selector_after_wait("t1"))
    /\ WF_vars(Finish("t1"))
    /\ WF_vars(_perform_initial_precheck)
    /\ WF_vars(BgPrecheckStart)
    /\ WF_vars(\E i \in 1..Len(run.keys) : _precheck_single_key(i))
    /\ WF_vars(\E i \in 1..Len(run.keys), o \in WalkOutcomes :
                  _validate_key_with_api(i, o))
    /\ WF_vars(PrecheckComplete)

SpecWalkAnyPace == InitWalk /\ [][NextWalkAnyPace]_vars

\* ------------------------------------------------------------------------
\* get_keys_by_status_paginated without search filter and fail-count
\* threshold: the list it builds, its count and its pages
\* ------------------------------------------------------------------------
KeyTypes == {"valid", "invalid", "frozen"}

\* keys_list.sort(key = lambda x: x["key"]): the key names in ascending order.
KeyOrder == <<"k1", "k2", "k3">>

\* The number of entries the loop of the page appends for key k: one per
\* occurrence in api_keys that passes the tests of the valid or invalid page;
\* for the frozen page one if k is manually frozen plus one if frozen_keys
\* holds an entry for k that has not expired.
PageEntries(key_type, k) ==
    IF key_type = "valid"
    THEN IF FailOf(k) < MAX_FAILURES /\ ~(is_key_frozen(k) \/ is_key_disabled(k))
         THEN Len(SelectSeq(api_keys, LAMBDA x : x = k)) ELSE 0
    ELSE IF key_type = "invalid"
    THEN IF FailOf(k) >= MAX_FAILURES /\ ~(is_key_frozen(k) \/ is_key_disabled(k))
         THEN Len(SelectSeq(api_keys, LAMBDA x : x = k)) ELSE 0
    ELSE (IF k \in manually_frozen_keys THEN 1 ELSE 0)
         + (IF frozen_keys[k] # Absent /\ ~(now >= frozen_keys[k]) THEN 1 ELSE 0)

RECURSIVE SortedEntries(_, _)
\* keys_list after the sort, from position i of the key order on.
SortedEntries(key_type, i) ==
    IF i > Len(KeyOrder) THEN << >>
    ELSE [j \in 1..PageEntries(key_type, KeyOrder[i]) |-> KeyOrder[i]]
         \o SortedEntries(key_type, i + 1)

keys_list(key_type) == SortedEntries(key_type, 1)

total_count(key_type) == Len(keys_list(key_type))

\* (total_count + page_size - 1) // page_size
total_pages(key_type, page_size) == (total_count(key_type) + page_size - 1) \div page_size

\* page = max(1, min(page, total_pages if total_pages > 0 else 1))
ClampedPage(key_type, page, page_size) ==
    LET pages == total_pages(key_type, page_size)
    IN  Max(1, Min(page, IF pages > 0 THEN pages ELSE 1))

\* keys_list[start_index:end_index]
page_keys(key_type, page, page_size) ==
    LET start_index == (ClampedPage(key_type, page, page_size) - 1) * page_size
        end_index == start_index + page_size
    IN  SubSeq(keys_list(key_type), start_index + 1, Min(end_index, total_count(key_type)))

RECURSIVE DictKeys(_)
\* The keys of the dict built from a list of entries, in insertion order: a
\* later entry for a key already present replaces the value, not the position.
DictKeys(entries) ==
    IF entries = << >> THEN << >>
    ELSE LET front == DictKeys(SubSeq(entries, 1, Len(entries) - 1))
             last == entries[Len(entries)]
         IN  IF \E j \in 1..Len(front) : front[j] = last THEN front
             ELSE Append(front, last)

paginated_keys(key_type, page, page_size) == DictKeys(page_keys(key_type, page, page_size))

RECURSIVE PagesUpTo(_, _, _)
\* The keys of pages 1..page, one page after the other.
PagesUpTo(key_type, page, page_size) ==
    IF page = 0 THEN << >>
    ELSE PagesUpTo(key_type, page - 1, page_size)
         \o paginated_keys(key_type, page, page_size)

\* The keys of the map get_keys_by_status returns for the key type.
StatusMapKeys(key_type) ==
    {k \in KeySet(api_keys) : get_keys_by_status_list(k) = key_type \o "_keys"}

\* ------------------------------------------------------------------------
\* Operator calls that name a key, whether or not the pool holds it
\* ------------------------------------------------------------------------
\* batch_disable_keys: disable_key for every key of the request that is in
\* api_keys.
batch_disable_keys(ks) ==
    LET hit == ks \cap KeySet(api_keys)
    IN  /\ manually_frozen_keys' = manually_frozen_keys \cup hit
        /\ freeze_duration' = [k \in Keys |->
                                  IF k \in hit THEN Absent ELSE freeze_duration[k]]
        /\ UNCHANGED frozen_keys
        /\ interfered' = Disturb("operator")
        /\ UNCHANGED <<cfgVars, rotVars, failVars, bufVars, preVars, pc, callVars, now>>

\* batch_enable_keys: enable_key for every key of the request that is in
\* api_keys.
batch_enable_keys(ks) ==
    LET hit == ks \cap KeySet(api_keys)
    IN  /\ frozen_keys' = [k \in Keys |-> IF k \in hit THEN Absent ELSE frozen_keys[k]]
        /\ manually_frozen_keys' = manually_frozen_keys \ hit
        /\ freeze_duration' = [k \in Keys |->
                                  IF k \in hit THEN Absent ELSE freeze_duration[k]]
        /\ interfered' = Disturb("operator")
        /\ UNCHANGED <<cfgVars, rotVars, failVars, bufVars, preVars, pc, callVars, now>>

\* The verify-key route once the upstream answer is in: success resets the
\* count, a 429 with freeze-on-429 freezes the key, any other error raises
\* the count or creates it.
verify_key(k, outcome) ==
    /\ IF outcome = "ok"
       THEN /\ key_failure_counts' = ResetCount(key_failure_counts, k)
            /\ fail_events' = [fail_events EXCEPT ![k] = 0]
            /\ UNCHANGED freezeVars
       ELSE IF FreezesOn429(outcome)
       THEN /\ Handle429Body(k)
            /\ UNCHANGED failVars
       ELSE /\ FailOf(k) < MaxFailCount
            /\ key_failure_counts' =
                   IF key_failure_counts[k] = Absent
                   THEN [key_failure_counts EXCEPT ![k] = 1]
                   ELSE IncrementFail(key_failure_counts, k)
            /\ fail_events' = [fail_events EXCEPT ![k] = @ + 1]
            /\ UNCHANGED freezeVars
    /\ interfered' = Disturb("operator")
    /\ UNCHANGED <<cfgVars, rotVars, bufVars, preVars, pc, callVars, now>>

\* ------------------------------------------------------------------------
\* SpecForeign: the operator's calls on a two-key pool, each made with any
\* key name, among them k3, which the pool does not hold.
\* ------------------------------------------------------------------------
ForeignOutcomes == {"ok", "429", "err"}

InitForeign == InitPool({<<"k1", "k2">>}, {FALSE}, BOOLEAN)

NextForeign ==
    \/ \E k \in Keys :
          freeze_key(k, KEY_FREEZE_DURATION_SECONDS) /\ Logged("freeze_key", k, TRUE)
    \/ \E k \in Keys :
          unfreeze_key(k) /\ Logged("unfreeze_key", k, unfreeze_key_returns(k))
    \/ \E k \in Keys :
          manually_freeze_key(k) /\ Logged("manually_freeze_key", k, TRUE)
    \/ \E k \in Keys : disable_key(k) /\ Logged("disable_key", k, TRUE)
    \/ \E k \in Keys : enable_key(k) /\ Logged("enable_key", k, unfreeze_key_returns(k))
    \/ \E ks \in SUBSET Keys :
          /\ ks # {}
          /\ batch_disable_keys(ks)
          /\ Logged("batch_disable_keys", NoKey, ks \cap KeySet(api_keys))
    \/ \E ks \in SUBSET Keys :
          /\ ks # {}
          /\ batch_enable_keys(ks)
          /\ Logged("batch_enable_keys", NoKey, ks \cap KeySet(api_keys))
    \/ \E k \in Keys, o \in ForeignOutcomes :
          verify_key(k, o) /\ Logged("verify_key", k, o)

SpecForeign == InitForeign /\ [][NextForeign]_vars

\* ------------------------------------------------------------------------
\* SpecCandidates: the candidate selection of the precheck. Runs are triggered
\* by hand while the rotator is drawn from and validations succeed or fail
\* (freeze-on-429 disabled), so that keys reach MAX_FAILURES and the position
\* moves.
\* ------------------------------------------------------------------------
CandidateOutcomes == {"ok", "err"}

InitCandidates == InitPool({<<"k1", "k2", "k3">>}, {TRUE}, {FALSE})

NextCandidates ==
    \/ manual_trigger_precheck("t1")
    \/ manual_trigger_return("t1")
    \/ \E t \in Tasks : Finish(t)
    \/ _perform_initial_precheck
    \/ \E i \in 1..Len(run.keys) : _precheck_single_key(i)
    \/ \E i \in 1..Len(run.keys), o \in CandidateOutcomes : _validate_key_with_api(i, o)
    \/ PrecheckComplete
    \/ Len(drawn) < MaxDraws /\ get_next_key("t2")

SpecCandidates == InitCandidates /\ [][NextCandidates]_vars

\* ------------------------------------------------------------------------
\* SpecBuffer: precheck mode on a three-key pool, freeze-on-429 enabled. A
\* request selects keys while prechecks establish, queue and swap the two
\* buffers; the upstream answers a validation with success or with 429, and the
\* operator raises the trigger ratio to 1.0.
\* ------------------------------------------------------------------------
BufferOutcomes == {"ok", "429"}

InitBuffer == InitPool({<<"k1", "k2", "k3">>}, {TRUE}, {TRUE})

NextBuffer ==
    \/ get_next_working_key("t1")
    \/ \E t \in Tasks : selector_precheck(t)
    \/ \E t \in Tasks : selector_after_wait(t)
    \/ \E t \in Tasks : selector_wait_timeout(t)
    \/ \E t \in Tasks : legacy_first(t)
    \/ \E t \in Tasks : legacy_check(t)
    \/ \E t \in Tasks : legacy_next(t)
    \/ \E t \in Tasks : Finish(t)
    \/ _perform_initial_precheck
    \/ BgPrecheckStart
    \/ \E i \in 1..Len(run.keys) : _precheck_single_key(i)
    \/ \E i \in 1..Len(run.keys), o \in BufferOutcomes : _validate_key_with_api(i, o)
    \/ PrecheckComplete
    \/ update_precheck_config(precheck_enabled, 10)
    \/ update_precheck_config_saved

SpecBuffer == InitBuffer /\ [][NextBuffer]_vars

\* ------------------------------------------------------------------------
\* SpecPrecheckRace: every trigger of a precheck at once. A request selects
\* keys, background tasks start, the operator triggers a precheck by hand and
\* raises the trigger ratio to 1.0.
\* ------------------------------------------------------------------------
InitPrecheckRace == InitPool({<<"k1">>}, {TRUE}, {FALSE})

NextPrecheckRace ==
    \/ manual_trigger_precheck("t1")
    \/ manual_trigger_return("t1")
    \/ Len(drawn) < MaxDraws /\ get_next_working_key("t2")
    \/ \E t \in Tasks : selector_precheck(t)
    \/ \E t \in Tasks : selector_after_wait(t)
    \/ \E t \in Tasks : selector_wait_timeout(t)
    \/ \E t \in Tasks : legacy_first(t)
    \/ \E t \in Tasks : legacy_check(t)
    \/ \E t \in Tasks : legacy_next(t)
    \/ \E t \in Tasks : Finish(t)
    \/ _perform_initial_precheck
    \/ BgPrecheckStart
    \/ \E i \in 1..Len(run.keys) : _precheck_single_key(i)
    \/ \E i \in 1..Len(run.keys), o \in Outcomes : _validate_key_with_api(i, o)
    \/ PrecheckComplete
    \/ update_precheck_config(precheck_enabled, 10)
    \/ update_precheck_config_saved

SpecPrecheckRace == InitPrecheckRace /\ [][NextPrecheckRace]_vars

\* ------------------------------------------------------------------------
\* The module-level singleton: get_key_manager_instance and
\* reset_key_manager_instance
\* ------------------------------------------------------------------------
\* list.index(k), 0-based.
IndexOf(list, k) ==
    (CHOOSE i \in 1..Len(list) : list[i] = k /\ \A j \in 1..(i - 1) : list[j] # k) - 1

HasEntries(counts) == \E k \in Keys : counts[k] # Absent

\* {key: 0 for key in api_keys}
ZeroCounts(list) == [k \in Keys |-> IF k \in KeySet(list) THEN 0 ELSE Absent]

RestoreCountsZero(preserved, list) == ZeroCounts(list)

\* Step 1 of the re-construction: the failure counts of the new instance.
RestoreCounts(preserved, list) ==
    IF HasEntries(preserved)
    THEN [k \in Keys |-> IF k \notin KeySet(list) THEN Absent
                         ELSE IF preserved[k] # Absent THEN preserved[k] ELSE 0]
    ELSE ZeroCounts(list)

\* Step 2 of the re-construction: start_key_for_new_cycle (NoKey: None).
start_key_for_new_cycle(old, p, list) ==
    IF Len(old) > 0 /\ p # NoKey /\ Len(list) > 0 /\ p \in KeySet(old)
    THEN LET start_idx_in_old == IndexOf(old, p)
             key_candidate(i) == old[((start_idx_in_old + i) % Len(old)) + 1]
             hits == {i \in 0..(Len(old) - 1) : key_candidate(i) \in KeySet(list)}
         IN  IF hits = {} THEN NoKey
             ELSE key_candidate(CHOOSE i \in hits : \A j \in hits : i <= j)
    ELSE NoKey

RestoredCyclePosStart(start_key, list) == 0

\* The cursor of the new cycle after target_idx calls of next().
RestoredCyclePos(start_key, list) ==
    IF start_key # NoKey /\ Len(list) > 0 THEN IndexOf(list, start_key) ELSE 0

InstanceMissingAlways(inst) == TRUE

\* if _singleton_instance is None
InstanceMissing(inst) == inst = 0

\* KeyManager(api_keys, vertex_api_keys) followed by the restoration of the
\* preserved state: every field of the new object.
Construct(list, vlist) ==
    /\ instances_built < MaxInstances
    /\ singleton_instance' = instances_built + 1
    /\ instances_built' = instances_built + 1
    /\ built_since_reset' = built_since_reset + 1
    /\ api_keys' = list
    /\ vertex_api_keys' = vlist
    /\ key_state_lock' = "free"
    /\ failure_count_lock' = "free"
    /\ lk' = [t \in Tasks |-> NoListing]
    /\ key_failure_counts' = RestoreCounts(preserved_failure_counts, list)
    /\ vertex_key_failure_counts' = RestoreCounts(preserved_vertex_failure_counts, vlist)
    /\ cycle_pos' = RestoredCyclePos(
                        start_key_for_new_cycle(preserved_old_api_keys_for_reset,
                                                preserved_next_key_in_cycle, list),
                        list)
    /\ key_usage_counter' = 0
    /\ drawn' = << >>
    /\ fail_events' = [k \in Keys |-> 0]
    /\ frozen_keys' = [k \in Keys |-> Absent]
    /\ freeze_duration' = [k \in Keys |-> Absent]
    /\ manually_frozen_keys' = {}
    /\ disabled_keys' = {}
    /\ precheck_in_progress' = FALSE
    /\ valid_keys_batch_a' = << >>
    /\ valid_keys_batch_b' = << >>
    /\ current_batch_name' = "A"
    /\ current_batch_index' = 0
    /\ batch_a_ready' = FALSE
    /\ batch_b_ready' = FALSE
    /\ valid_keys_used_count' = 0
    /\ valid_keys_trigger_threshold' = 0
    /\ last_pick' = NoPick
    /\ run' = NoRun
    /\ bg_tasks' = 0
    /\ initial_precheck_pending' = (precheck_enabled /\ Len(list) > 0)
    /\ preserved_failure_counts' = NoCounts
    /\ preserved_vertex_failure_counts' = NoCounts
    /\ preserved_old_api_keys_for_reset' = << >>
    /\ preserved_next_key_in_cycle' = NoKey

\* The fields of the KeyManager object and the preserved state.
instanceVars == <<api_keys, disabled_keys, vertexVars, lockVars, rotVars, failVars, freezeVars,
                  bufVars, preVars>>

\* async with _singleton_lock, in either function.
singleton_lock_acquire(t, name) ==
    /\ pc[t] = "idle"
    /\ singleton_lock = "free"
    /\ singleton_lock' = t
    /\ op' = [op EXCEPT ![t] = name]
    /\ pc' = [pc EXCEPT ![t] = IF name = "get_key_manager_instance"
                                THEN "gi_body" ELSE "rs_preserve"]
    /\ UNCHANGED <<instanceVars, settingVars, singleton_instance, preservedVars,
                   instances_built, built_since_reset, returned, resetVars, manualVars,
                   mode, initial_key, current_key, arg_key, old_key, new_key,
                   arg_retries, ret, attempts, last_error, advances, start_pos,
                   interfered, now>>
    /\ last_call' = NoCall

\* get_key_manager_instance(api_keys, vertex_api_keys) under the lock; `given`
\* is false when one of the two arguments is None.
get_key_manager_instance(t, given, list, vlist) ==
    /\ pc[t] = "gi_body"
    /\ singleton_lock' = "free"
    /\ pc' = [pc EXCEPT ![t] = "done"]
    /\ IF InstanceMissing(singleton_instance)
       THEN IF ~given
            THEN /\ ret' = [ret EXCEPT ![t] = Raised]
                 /\ last_call' = [op |-> "get_key_manager_instance", key |-> NoKey,
                                  ret |-> 0]
                 /\ UNCHANGED <<instanceVars, singleton_instance, preservedVars,
                                instances_built, built_since_reset, returned>>
            ELSE /\ Construct(list, vlist)
                 /\ ret' = [ret EXCEPT ![t] = "instance"]
                 /\ returned' = returned \cup {singleton_instance'}
                 /\ last_call' = [op |-> "get_key_manager_instance", key |-> NoKey,
                                  ret |-> singleton_instance']
       ELSE /\ ret' = [ret EXCEPT ![t] = "instance"]
            /\ returned' = returned \cup {singleton_instance}
            /\ last_call' = [op |-> "get_key_manager_instance", key |-> NoKey,
                             ret |-> singleton_instance]
            /\ UNCHANGED <<instanceVars, singleton_instance, preservedVars,
                           instances_built, built_since_reset>>
    /\ UNCHANGED <<settingVars, resetVars, manualVars, op, mode, initial_key,
                   current_key, arg_key, old_key, new_key, arg_retries, attempts,
                   last_error, advances, start_pos, interfered, now>>

\* reset_key_manager_instance under the lock, up to its get_next_key call: the
\* copies of the counts and of the key lists, and the next key of the old cycle.
reset_preserve(t) ==
    /\ pc[t] = "rs_preserve"
    /\ IF singleton_instance # 0
       THEN /\ preserved_failure_counts' = key_failure_counts
            /\ preserved_vertex_failure_counts' = vertex_key_failure_counts
            /\ preserved_old_api_keys_for_reset' = api_keys
            /\ reset_old_keys' = api_keys
            /\ IF Len(api_keys) > 0
               THEN /\ AdvanceRotator
                    /\ preserved_next_key_in_cycle' = NextOfCycle(api_keys, cycle_pos)
                    /\ reset_next_key' = api_keys[cycle_pos + 1]
               ELSE /\ preserved_next_key_in_cycle' = NoKey
                    /\ reset_next_key' = NoKey
                    /\ UNCHANGED rotVars
            /\ pc' = [pc EXCEPT ![t] = "rs_clear"]
            /\ UNCHANGED <<singleton_lock, ret>>
       ELSE /\ singleton_lock' = "free"
            /\ pc' = [pc EXCEPT ![t] = "done"]
            /\ ret' = [ret EXCEPT ![t] = "None"]
            /\ UNCHANGED <<preservedVars, resetVars, rotVars>>
    /\ UNCHANGED <<api_keys, disabled_keys, vertexVars, lockVars, failVars, freezeVars, bufVars,
                   preVars, settingVars, singleton_instance, instances_built,
                   built_since_reset, returned, manualVars, op, mode, initial_key, current_key,
                   arg_key, old_key, new_key, arg_retries, attempts, last_error,
                   advances, start_pos, interfered, now>>
    /\ last_call' = NoCall

\* The end of reset_key_manager_instance: _singleton_instance = None.
reset_clear(t) ==
    /\ pc[t] = "rs_clear"
    /\ singleton_instance' = 0
    /\ singleton_lock' = "free"
    /\ built_since_reset' = 0
    /\ returned' = {}
    /\ pc' = [pc EXCEPT ![t] = "done"]
    /\ ret' = [ret EXCEPT ![t] = "None"]
    /\ UNCHANGED <<instanceVars, settingVars, preservedVars, instances_built, resetVars,
                   manualVars, op, mode, initial_key, current_key, arg_key, old_key, new_key,
                   arg_retries, attempts, last_error, advances, start_pos, interfered,
                   now>>
    /\ last_call' = NoCall

\* handle_vertex_api_failure(k, r), its critical section: the vertex count of k
\* goes up by one.
handle_vertex_api_failure(k) ==
    /\ vertex_key_failure_counts[k] # Absent
    /\ vertex_key_failure_counts[k] < MaxFailCount
    /\ vertex_key_failure_counts' = [vertex_key_failure_counts EXCEPT ![k] = @ + 1]
    /\ UNCHANGED <<api_keys, disabled_keys, vertex_api_keys, lockVars, settingVars,
                   singVars, manualVars, rotVars, failVars, freezeVars, bufVars, preVars, taskVars, now>>
    /\ last_call' = NoCall

\* ------------------------------------------------------------------------
\* SpecSingleton: one task resets the singleton and gets it again with a
\* changed key list, while keys are drawn from the rotator.
\* ------------------------------------------------------------------------
SingletonKeyLists == {<< >>, <<"k1", "k2", "k3">>, <<"k2", "k1">>, <<"k3", "k1">>, <<"k3">>}

InitSingleton == InitPoolWith({<< >>}, {FALSE}, {FALSE}, 0)

NextSingleton ==
    \/ singleton_lock_acquire("t1", "get_key_manager_instance")
    \/ singleton_lock_acquire("t1", "reset_key_manager_instance")
    \/ get_key_manager_instance("t1", FALSE, << >>, << >>)
    \/ \E list \in SingletonKeyLists : get_key_manager_instance("t1", TRUE, list, << >>)
    \/ reset_preserve("t1")
    \/ reset_clear("t1")
    \/ Finish("t1")
    \/ Len(drawn) < MaxDraws /\ get_next_key("t1")

SpecSingleton == InitSingleton /\ [][NextSingleton]_vars

\* ------------------------------------------------------------------------
\* SpecSingletonCounts: one task resets the singleton and gets it again with
\* changed key lists, while failures are reported in both pools.
\* ------------------------------------------------------------------------
CountsKeyLists == {<< >>, <<"k2", "k1">>, <<"k3", "k1">>}
CountsVertexLists == {<< >>, <<"k1">>}

NextSingletonCounts ==
    \/ singleton_lock_acquire("t1", "get_key_manager_instance")
    \/ singleton_lock_acquire("t1", "reset_key_manager_instance")
    \/ get_key_manager_instance("t1", FALSE, << >>, << >>)
    \/ \E list \in CountsKeyLists, vlist \in CountsVertexLists :
           get_key_manager_instance("t1", TRUE, list, vlist)
    \/ reset_preserve("t1")
    \/ reset_clear("t1")
    \/ Finish("t1")
    \/ \E k \in KeySet(api_keys) : handle_api_failure("t1", k, MAX_RETRIES)
    \/ handle_api_failure_select("t1")
    \/ \E k \in KeySet(vertex_api_keys) : handle_vertex_api_failure(k)

SpecSingletonCounts == InitSingleton /\ [][NextSingletonCounts]_vars

\* ------------------------------------------------------------------------
\* SpecSingletonRace: two tasks call get_key_manager_instance and
\* reset_key_manager_instance concurrently, with and without key arguments,
\* while the instance serves keys and keys are disabled and enabled on it.
\* ------------------------------------------------------------------------
RaceKeyLists == {<<"k1">>, <<"k1", "k2">>}

NextSingletonRace ==
    \/ \E t \in Tasks : singleton_lock_acquire(t, "get_key_manager_instance")
    \/ \E t \in Tasks : singleton_lock_acquire(t, "reset_key_manager_instance")
    \/ \E t \in Tasks : get_key_manager_instance(t, FALSE, << >>, << >>)
    \/ \E t \in Tasks, list \in RaceKeyLists :
           get_key_manager_instance(t, TRUE, list, << >>)
    \/ \E t \in Tasks : reset_preserve(t)
    \/ \E t \in Tasks : reset_clear(t)
    \/ \E t \in Tasks : Finish(t)
    \/ Len(drawn) < MaxDraws /\ get_next_key("t1")
    \/ \E k \in KeySet(api_keys) :
           singleton_instance # 0 /\ disable_key(k) /\ Logged("disable_key", k, TRUE)
    \/ \E k \in KeySet(api_keys) :
           /\ singleton_instance # 0
           /\ enable_key(k)
           /\ Logged("enable_key", k, unfreeze_key_returns(k))

SpecSingletonRace == InitSingleton /\ [][NextSingletonRace]_vars

\* ------------------------------------------------------------------------
\* Key status as the data model defines it, written over the raw state
\* ------------------------------------------------------------------------
AutoFrozen(k) == frozen_keys[k] # Absent /\ now < frozen_keys[k]

StatusFrozen(k) == k \in manually_frozen_keys \/ AutoFrozen(k)

StatusValid(k) ==
    /\ ~StatusFrozen(k)
    /\ key_failure_counts[k] # Absent
    /\ key_failure_counts[k] < MAX_FAILURES

SomeKeyValid == \E k \in KeySet(api_keys) : StatusValid(k)

\* The key i places after the 0-based cursor position pos, walking cyclically.
KeyAt(pos, i) == api_keys[((pos + i) % Len(api_keys)) + 1]

\* The first valid key met walking the key list cyclically from pos.
FirstValidFrom(pos) ==
    LET offs == {i \in 0..(Len(api_keys) - 1) : StatusValid(KeyAt(pos, i))}
        m == CHOOSE i \in offs : \A j \in offs : i <= j
    IN  KeyAt(pos, m)

\* ------------------------------------------------------------------------
\* Properties of the Key State Store (checked under SpecOps)
\* ------------------------------------------------------------------------
\* C2: in every reachable state and for every key k of the pool, is_key_valid(k)
\* holds iff is_key_frozen(k) is false (k is neither manually frozen nor
\* auto-frozen with an unexpired deadline) and fail_count(k) < MAX_FAILURES.
C2_ValidIffNotFrozenAndBelowMax ==
    \A k \in KeySet(api_keys) :
        /\ is_key_frozen(k) <=> StatusFrozen(k)
        /\ is_key_valid(k) <=>
               (~is_key_frozen(k) /\ key_failure_counts[k] < MAX_FAILURES)

\* A key auto-frozen with an unexpired deadline and a count below the maximum is
\* invalid, next to a valid key and to a key that is invalid by its count alone.
C2_Witness ==
    /\ now > 0
    /\ \E k \in KeySet(api_keys) :
           /\ AutoFrozen(k)
           /\ k \notin manually_frozen_keys
           /\ key_failure_counts[k] < MAX_FAILURES
           /\ ~is_key_valid(k)
           /\ \E j \in KeySet(api_keys) :
                  /\ ~StatusFrozen(j)
                  /\ key_failure_counts[j] = MAX_FAILURES
                  /\ ~is_key_valid(j)

\* C8: a call handle_429_error(k) leaves every fail_count unchanged; with
\* freeze-on-429 enabled it returns true and k is frozen until
\* now + KEY_FREEZE_DURATION_SECONDS, with it disabled it returns false and the
\* freeze state is unchanged.
C8_Handle429Effect ==
    [][ last_call'.op = "handle_429_error" =>
            LET k == last_call'.key
            IN  /\ key_failure_counts' = key_failure_counts
                /\ IF enable_freeze_429
                   THEN /\ last_call'.ret = TRUE
                        /\ frozen_keys' =
                               [frozen_keys EXCEPT
                                    ![k] = now + KEY_FREEZE_DURATION_SECONDS]
                        /\ manually_frozen_keys' = manually_frozen_keys
                        /\ now' < frozen_keys'[k]
                   ELSE /\ last_call'.ret = FALSE
                        /\ frozen_keys' = frozen_keys
                        /\ manually_frozen_keys' = manually_frozen_keys ]_vars

\* handle_429_error has just frozen, at a later time than 0, a key that has
\* recorded failures: the key is frozen for the configured duration and its
\* count is still there.
C8_Witness ==
    /\ last_call.op = "handle_429_error"
    /\ last_call.ret = TRUE
    /\ now > 0
    /\ frozen_keys[last_call.key] = now + KEY_FREEZE_DURATION_SECONDS
    /\ key_failure_counts[last_call.key] > 0
    /\ StatusFrozen(last_call.key)

\* ------------------------------------------------------------------------
\* Properties of the legacy selector, the rotator and the failure handler
\* (checked under SpecLegacy)
\* ------------------------------------------------------------------------
\* C3: with precheck disabled and no other task changing key state or advancing
\* the rotator meanwhile, if some key of the pool is valid then the selector
\* returns a valid key: the first valid key met walking the key list cyclically
\* from the rotator's cursor.
C3_LegacyReturnsFirstValid ==
    \A t \in Tasks :
        (/\ pc[t] = "done"
         /\ mode[t] = "legacy"
         /\ ~interfered[t]
         /\ SomeKeyValid)
        => /\ ret[t] = FirstValidFrom(start_pos[t])
           /\ StatusValid(ret[t])

\* An undisturbed legacy call on three keys skipped at least one invalid key and
\* returned a later, valid one.
C3_Witness ==
    \E t \in Tasks :
        /\ pc[t] = "done"
        /\ mode[t] = "legacy"
        /\ op[t] = "get_next_working_key"
        /\ ~interfered[t]
        /\ Len(api_keys) = 3
        /\ advances[t] >= 2
        /\ StatusValid(ret[t])
        /\ ret[t] # initial_key[t]

\* C4: with precheck disabled and a non-empty pool in which no key is valid, a
\* selector call that is the only task advancing the rotator makes at most
\* |keys| + 1 rotator advances and returns the first key it drew; it is never
\* still looping after the |keys| + 1-th advance.
C4_LegacyDegradedBounded ==
    \A t \in Tasks :
        (/\ mode[t] = "legacy"
         /\ pc[t] \in {"leg_check", "leg_next", "done"}
         /\ ~interfered[t]
         /\ Len(api_keys) > 0
         /\ ~SomeKeyValid)
        => /\ advances[t] <= Len(api_keys) + 1
           /\ pc[t] # "done" => advances[t] <= Len(api_keys)
           /\ pc[t] = "done" =>
                  /\ ret[t] = initial_key[t]
                  /\ ret[t] = KeyAt(start_pos[t], 0)
                  /\ advances[t] = Len(api_keys) + 1

\* An undisturbed legacy call on three keys, none valid, went once round the list
\* and returned the first key it drew.
C4_Witness ==
    \E t \in Tasks :
        /\ pc[t] = "done"
        /\ mode[t] = "legacy"
        /\ ~interfered[t]
        /\ Len(api_keys) = 3
        /\ ~SomeKeyValid
        /\ advances[t] = 4
        /\ ret[t] = initial_key[t]

\* C6: get_next_key hands out the keys in strict cyclic order whatever their
\* validity: the j-th advance in cycle-lock order returns keys[(s + j) mod |keys|]
\* (s = 0 for a fresh rotator, j counted from 0), so within |keys| consecutive
\* advances no key is returned twice.
C6_RotatorCyclicOrder ==
    /\ \A j \in 1..Len(drawn) : drawn[j] = api_keys[((j - 1) % Len(api_keys)) + 1]
    /\ \A i, j \in 1..Len(drawn) :
           (i < j /\ j - i < Len(api_keys)) => drawn[i] # drawn[j]

\* Two tasks have drawn from a three-key rotator, more than one full cycle in
\* all, and an invalid key was handed out.
C6_Witness ==
    /\ Len(api_keys) = 3
    /\ Len(drawn) >= 4
    /\ advances["t1"] >= 1
    /\ advances["t2"] >= 1
    /\ \E j \in 1..Len(drawn) : ~StatusValid(drawn[j])

\* C7: every handle_api_failure(k, r) call raises fail_count[k] by exactly one,
\* so the count equals the number of calls made for k under any interleaving;
\* the call returns the selector's key when r < MAX_RETRIES and otherwise the
\* empty value, without asking the selector.
C7_FailureCountedOnceAndResult ==
    /\ \A k \in KeySet(api_keys) : key_failure_counts[k] = fail_events[k]
    /\ \A t \in Tasks :
           (pc[t] = "done" /\ op[t] = "handle_api_failure" /\ ret[t] # Raised)
           => IF arg_retries[t] < MAX_RETRIES
              THEN /\ mode[t] = "legacy"
                   /\ advances[t] >= 1
                   /\ ret[t] = current_key[t]
              ELSE /\ ret[t] = NoKey
                   /\ mode[t] = "none"
                   /\ advances[t] = 0

\* Two tasks reported a failure of the same key, whose count is now 2: the one
\* with retries left was given a key by the selector, the other the empty value.
C7_Witness ==
    /\ pc["t1"] = "done" /\ pc["t2"] = "done"
    /\ op["t1"] = "handle_api_failure" /\ op["t2"] = "handle_api_failure"
    /\ arg_key["t1"] = arg_key["t2"]
    /\ key_failure_counts[arg_key["t1"]] = 2
    /\ arg_retries["t1"] < MAX_RETRIES
    /\ ret["t1"] \in KeySet(api_keys)
    /\ arg_retries["t2"] = MAX_RETRIES
    /\ ret["t2"] = NoKey

\* ------------------------------------------------------------------------
\* Properties of the selector with the precheck batches (checked under Spec)
\* ------------------------------------------------------------------------
\* C1: whenever at least one key of the pool is valid, the key returned by
\* get_next_working_key - from the precheck batch or from the legacy loop - is,
\* at the moment it is returned, not manually disabled, not frozen and has
\* fail_count < MAX_FAILURES. (Stated for calls during which no other task
\* changed the pool, so the state at "done" is the state at the return.)
C1_ReturnedKeyIsValid ==
    \A t \in Tasks :
        (/\ pc[t] = "done"
         /\ op[t] = "get_next_working_key"
         /\ ret[t] \in KeySet(api_keys)
         /\ ~interfered[t]
         /\ SomeKeyValid)
        => StatusValid(ret[t])

\* ------------------------------------------------------------------------
\* Properties of the empty pool (checked under SpecEmpty)
\* ------------------------------------------------------------------------
\* C5: on a pool with an empty key list, get_next_key and get_next_working_key,
\* precheck enabled or disabled, end with an error: no key is returned, the
\* rotator is never advanced, no precheck run is awaited, and a call that has
\* started always has its next step enabled.
C5_EmptyPoolFails ==
    Len(api_keys) = 0 =>
        /\ ~precheck_in_progress
        /\ run = NoRun
        /\ drawn = << >>
        /\ \A t \in Tasks :
               /\ pc[t] = "done" => (ret[t] = Raised /\ advances[t] = 0)
               /\ pc[t] \notin {"idle", "done"} => ENABLED EmptyPoolStep(t)

\* Both operations have failed on an empty pool: get_next_working_key with
\* precheck enabled, after its wait, and get_next_key.
C5_Witness ==
    /\ Len(api_keys) = 0
    /\ precheck_enabled
    /\ pc["t1"] = "done" /\ op["t1"] = "get_next_working_key"
    /\ mode["t1"] = "fallback" /\ ret["t1"] = Raised
    /\ pc["t2"] = "done" /\ op["t2"] = "get_next_key" /\ ret["t2"] = Raised

\* ------------------------------------------------------------------------
\* Properties of the retry wrapper (checked under SpecRetry)
\* ------------------------------------------------------------------------
\* C9: when a request made with key k fails with a non-429 error and retries
\* remain, the key the wrapper injects for the next attempt differs from k
\* whenever the pool holds another valid key. (Stated for handlings during
\* which no other task changed the pool.)
C9_InjectsDifferentKey ==
    \A t \in Tasks :
        (/\ op[t] = "retry"
         /\ pc[t] = "rt_call"
         /\ attempts[t] >= 1
         /\ last_error[t] = "err"
         /\ new_key[t] # NoKey
         /\ ~interfered[t]
         /\ \E k \in KeySet(api_keys) \ {old_key[t]} : StatusValid(k))
        => new_key[t] # old_key[t]

\* C10: the wrapper calls the wrapped function at most MAX_RETRIES times; it
\* re-raises the last exception only after MAX_RETRIES failed attempts or
\* after the key manager supplied no new key; once an attempt has succeeded the
\* wrapper is finished.
C10_RetryBounded ==
    \A t \in Tasks :
        op[t] = "retry" =>
            /\ attempts[t] <= MAX_RETRIES
            /\ ret[t] = "ok" => (pc[t] = "done" /\ attempts[t] >= 1)
            /\ (pc[t] = "done" /\ ret[t] = "reraised") =>
                   /\ last_error[t] # "none"
                   /\ attempts[t] = MAX_RETRIES \/ new_key[t] = NoKey

\* A request failed MAX_RETRIES times with 429 answers; the key manager had a
\* new key each time, and the wrapper re-raised once the attempts were used up.
C10_Witness ==
    \E t \in Tasks :
        /\ op[t] = "retry"
        /\ pc[t] = "done"
        /\ ret[t] = "reraised"
        /\ attempts[t] = MAX_RETRIES
        /\ last_error[t] = "429"
        /\ new_key[t] \in KeySet(api_keys)

\* ------------------------------------------------------------------------
\* Properties of freezing and unfreezing (checked under SpecFreeze)
\* ------------------------------------------------------------------------
\* What an observation is_key_frozen(k) made now must give for a key whose
\* latest freeze_key(k, d) was followed by no unfreeze, enable or disable:
\* with the entry still in the map, frozen exactly while now < deadline, the
\* entry being removed by an observation at or after the deadline; with the
\* entry already removed by such an observation, not frozen.
ObservedAsFrozenUntilDeadline(k) ==
    IF frozen_keys[k] # Absent
    THEN /\ is_key_frozen(k) <=> now < frozen_keys[k]
         /\ now >= frozen_keys[k] => is_key_frozen_cleanup(k)[k] = Absent
         /\ now < frozen_keys[k] => is_key_frozen_cleanup(k) = frozen_keys
    ELSE ~is_key_frozen(k)

\* C11 as stated: after freeze_key(k, d) at time t, with no later freeze,
\* unfreeze, disable or enable of k, is_key_frozen(k) is true at every
\* observation before t + d and false at every observation from t + d on, the
\* first of which removes k from the map.
C11_FrozenExactlyUntilDeadline ==
    \A k \in KeySet(api_keys) :
        freeze_duration[k] # Absent => ObservedAsFrozenUntilDeadline(k)

\* C11 amended: the same for a key that was not manually frozen when
\* freeze_key was called; and freeze_key(k, d) sets the deadline to now + d.
C11_FrozenExactlyUntilDeadlineUnlessManual ==
    /\ [](\A k \in KeySet(api_keys) :
              (freeze_duration[k] # Absent /\ k \notin manually_frozen_keys)
              => ObservedAsFrozenUntilDeadline(k))
    /\ [][ last_call'.op = "freeze_key" =>
               frozen_keys'[last_call'.key] = now + freeze_duration'[last_call'.key]
         ]_vars

\* A key frozen for the longer duration at a time later than 0 was observed
\* after its deadline: its entry is gone and it is not frozen.
C11_Witness ==
    /\ last_call.op = "is_key_frozen"
    /\ last_call.ret = FALSE
    /\ freeze_duration[last_call.key] = KEY_FREEZE_DURATION_SECONDS
    /\ last_call.key \notin manually_frozen_keys
    /\ frozen_keys[last_call.key] = Absent
    /\ now = MaxTime

\* C12 as stated: for every key k and every prior freeze state of k (not
\* frozen, auto-frozen with an unexpired deadline, manually frozen),
\* is_key_frozen(k) after freeze_key(k, d) immediately followed by
\* unfreeze_key(k) equals is_key_frozen(k) before the pair.
C12_FreezeUnfreezeRestoresFrozen ==
    [][ (/\ last_call.op = "freeze_key"
         /\ last_call'.op = "unfreeze_key"
         /\ last_call'.key = last_call.key)
        => (is_key_frozen(last_call.key)' <=> (last_call.ret = "frozen_keys")) ]_vars

\* C12 (amended): after freeze_key(k, d) immediately followed by
\* unfreeze_key(k), k is not frozen, neither automatically nor manually,
\* whatever its freeze state before the pair; so is_key_frozen(k) equals its
\* value before the pair for a key that was not frozen before it.
C12_FreezeUnfreezeLeavesUnfrozen ==
    [][ (/\ last_call.op = "freeze_key"
         /\ last_call'.op = "unfreeze_key"
         /\ last_call'.key = last_call.key)
        => /\ ~(is_key_frozen(last_call.key)')
           /\ frozen_keys'[last_call.key] = Absent
           /\ last_call.key \notin manually_frozen_keys'
           /\ last_call.ret # "frozen_keys"
              => (is_key_frozen(last_call.key)' <=> (last_call.ret = "frozen_keys"))
      ]_vars

\* A key that was not frozen has been frozen and at once unfrozen.
C12_Witness ==
    /\ last_call.op = "unfreeze_key"
    /\ last_call.ret = "valid_keys"
    /\ ~is_key_frozen(last_call.key)

\* C13 as stated: for every key k and every prior state of k (enabled, already
\* disabled, auto-frozen with an unexpired deadline), the status of k (valid /
\* invalid / frozen) after disable_key(k) immediately followed by enable_key(k)
\* equals its status before the pair.
C13_DisableEnableRestoresStatus ==
    [][ (/\ last_call.op = "disable_key"
         /\ last_call'.op = "enable_key"
         /\ last_call'.key = last_call.key)
        => get_keys_by_status_list(last_call.key)' = last_call.ret ]_vars

\* C13 (amended): after disable_key(k) immediately followed by enable_key(k),
\* k is not frozen and its status is the one its failure count gives (valid
\* below MAX_FAILURES, invalid otherwise); this equals its status before the
\* pair for a key that was neither disabled nor auto-frozen before it.
C13_DisableEnableLeavesCountStatus ==
    [][ (/\ last_call.op = "disable_key"
         /\ last_call'.op = "enable_key"
         /\ last_call'.key = last_call.key)
        => /\ get_keys_by_status_list(last_call.key)' =
                  (IF key_failure_counts'[last_call.key] < MAX_FAILURES
                   THEN "valid_keys" ELSE "invalid_keys")
           /\ key_failure_counts'[last_call.key] = key_failure_counts[last_call.key]
           /\ last_call.ret # "frozen_keys"
              => get_keys_by_status_list(last_call.key)' = last_call.ret
      ]_vars

\* An invalid key has been disabled and at once enabled.
C13_Witness ==
    /\ last_call.op = "enable_key"
    /\ last_call.ret = "invalid_keys"
    /\ get_keys_by_status_list(last_call.key) = "invalid_keys"

\* ------------------------------------------------------------------------
\* Properties of the status snapshot (checked under SpecOps)
\* ------------------------------------------------------------------------
\* C19: after reset_key_failure_count(k) for a key k of the pool,
\* get_keys_by_status lists k in valid_keys if and only if k is not frozen
\* (neither auto-frozen nor manually frozen); when k is frozen it is listed in
\* frozen_keys, and it is never listed in invalid_keys.
C19_ResetThenStatusValidIffNotFrozen ==
    [][ (/\ last_call.op = "reset_key_failure_count"
         /\ last_call.key \in KeySet(api_keys)
         /\ last_call'.op = "get_keys_by_status")
        => /\ last_call.ret = TRUE
           /\ last_call'.key = last_call.key
           /\ last_call'.ret[last_call.key] = "valid_keys" <=> ~StatusFrozen(last_call.key)
           /\ StatusFrozen(last_call.key) => last_call'.ret[last_call.key] = "frozen_keys"
           /\ last_call'.ret[last_call.key] # "invalid_keys"
      ]_vars

\* get_keys_by_status right after the reset of a key lists that key as valid,
\* next to a key that is invalid by its failure count.
C19_Witness ==
    /\ last_call.op = "get_keys_by_status"
    /\ last_call.key # NoKey
    /\ last_call.ret[last_call.key] = "valid_keys"
    /\ \E k \in KeySet(api_keys) : last_call.ret[k] = "invalid_keys"

\* ------------------------------------------------------------------------
\* Properties of the singleton (checked under SpecSingleton,
\* SpecSingletonCounts and SpecSingletonRace)
\* ------------------------------------------------------------------------
\* C14: once key k is manually frozen (manually_freeze_key or disable_key),
\* is_key_frozen(k) stays true in every later state until unfreeze_key(k) or
\* enable_key(k) is called for k; in particular a singleton reset followed by a
\* re-construction with k still in the key list does not clear the manual
\* freeze.
C14_ManualFreezePersists ==
    [][ \A k \in Keys :
            (/\ k \in manually_frozen_keys
             /\ k \in KeySet(api_keys')
             /\ ~(last_call'.op \in {"unfreeze_key", "enable_key"} /\ last_call'.key = k))
            => (k \in manually_frozen_keys' \/ (frozen_keys'[k] # Absent /\ now' < frozen_keys'[k]))
      ]_vars

\* The key the claim expects from the first get_next_key of the re-constructed
\* instance: p if it is in the new list, otherwise the first key after p in the
\* old list's cyclic order that is in the new list, otherwise new_keys[0].
C15_ExpectedFirst(old, p, list) ==
    IF p \in KeySet(list) THEN p
    ELSE IF KeySet(old) \cap KeySet(list) = {} THEN list[1]
    ELSE LET at == CHOOSE i \in 1..Len(old) : old[i] = p
             after(j) == old[((at - 1 + j) % Len(old)) + 1]
             first == CHOOSE j \in 1..Len(old) :
                          /\ after(j) \in KeySet(list)
                          /\ \A h \in 1..(j - 1) : after(h) \notin KeySet(list)
         IN  after(first)

\* C15: after reset_key_manager_instance() followed by
\* get_key_manager_instance(new_keys, ...), the first get_next_key() of the new
\* instance returns the preserved key p (the key the old rotator would have
\* returned next) if p is in new_keys; otherwise the first key after p in the
\* old list's cyclic order that is in new_keys; if no key of the old list is in
\* new_keys it returns new_keys[0].
C15_FirstKeyAfterReset ==
    (/\ singleton_instance # 0
     /\ instances_built >= 2
     /\ \A t \in Tasks : pc[t] # "rs_clear"
     /\ Len(drawn) >= 1)
    => drawn[1] = C15_ExpectedFirst(reset_old_keys, reset_next_key, api_keys)

\* The old rotator on [k1, k2, k3] would have returned k3 next; the new list
\* [k2, k1] lacks k3, and the new instance's first key is k1, not new_keys[0].
C15_Witness ==
    /\ singleton_instance # 0
    /\ instances_built >= 2
    /\ \A t \in Tasks : pc[t] # "rs_clear"
    /\ reset_old_keys = <<"k1", "k2", "k3">>
    /\ reset_next_key = "k3"
    /\ api_keys = <<"k2", "k1">>
    /\ Len(drawn) >= 1
    /\ drawn[1] = "k1"

C17_OneInstanceBetweenResets ==
    /\ [](/\ Cardinality(returned) <= 1
          /\ built_since_reset <= 1
          /\ singleton_instance # 0 => returned \subseteq {singleton_instance}
          /\ singleton_instance = 0 => returned = {})
    /\ [][ (last_call'.op = "get_key_manager_instance" /\ singleton_instance # 0)
           => /\ last_call'.ret = singleton_instance
              /\ UNCHANGED <<instanceVars, singleton_instance, instances_built>>
         ]_vars

\* After a reset and a re-construction the instance has served a key, and a
\* later get_key_manager_instance call returned that same instance.
C17_Witness ==
    /\ last_call.op = "get_key_manager_instance"
    /\ last_call.ret = singleton_instance
    /\ instances_built >= 2
    /\ built_since_reset = 1
    /\ drawn # << >>
    /\ returned = {singleton_instance}
    /\ \E t \in Tasks : pc[t] = "done" /\ ret[t] = "instance"

\* ------------------------------------------------------------------------
\* Properties of the operator precheck (checked under SpecPrecheck)
\* ------------------------------------------------------------------------
\* C18: manual_trigger_precheck refuses - returns success = false with a
\* message, starts no precheck and changes no key state or buffer state - when
\* precheck is disabled or when a precheck is already in progress at the time
\* of the call; otherwise it runs one precheck and returns the before/after
\* buffer snapshots.
C18_ManualTriggerRefusesOrRuns ==
    /\ [][ (\E t \in Tasks : pc[t] = "idle" /\ op'[t] = "manual_trigger_precheck")
           => IF ~precheck_enabled \/ precheck_in_progress
              THEN /\ last_call'.op = "manual_trigger_precheck"
                   /\ last_call'.ret.success = FALSE
                   /\ last_call'.ret.message =
                          (IF ~precheck_enabled THEN "disabled" ELSE "in_progress")
                   /\ UNCHANGED <<failVars, freezeVars, bufVars, preVars, rotVars>>
              ELSE /\ last_call'.op # "manual_trigger_precheck"
                   /\ run'.owner \in Tasks
                   /\ pc'[run'.owner] = "pre_running"
                   /\ op'[run'.owner] = "manual_trigger_precheck"
                   /\ precheck_in_progress'
                   /\ \A i \in 1..Len(run'.keys) : run'.res[i] = "todo"
                   /\ mt_before'[run'.owner] = BufferSnapshot
         ]_vars
    /\ [][ (\E t \in Tasks : pc[t] = "mt_after" /\ pc'[t] = "done")
           => /\ last_call'.op = "manual_trigger_precheck"
              /\ last_call'.ret.success = TRUE
              /\ last_call'.ret.after = BufferSnapshot
              /\ \E t \in Tasks : pc[t] = "mt_after" /\ last_call'.ret.before = mt_before[t]
         ]_vars
    /\ [](\A t \in Tasks :
              (op[t] = "manual_trigger_precheck" /\ pc[t] = "pre_running")
              => run.owner = t /\ precheck_in_progress)

\* A manual trigger was refused while a background run, one key of which is
\* already validated, is in progress.
C18_Witness ==
    /\ last_call.op = "manual_trigger_precheck"
    /\ last_call.ret.success = FALSE
    /\ last_call.ret.message = "in_progress"
    /\ precheck_in_progress
    /\ run.owner = "bg"
    /\ \E i \in 1..Len(run.keys) : run.res[i] = "valid"

\* ------------------------------------------------------------------------
\* Properties of concurrent precheck triggers (checked under SpecPrecheckRace)
\* ------------------------------------------------------------------------
\* A step in which a trigger of a precheck arrives: a background task or the
\* initial precheck task starts, a selector call reaches its
\* _perform_precheck_async, or manual_trigger_precheck is called.
C20_TriggerArrives ==
    \/ bg_tasks' = bg_tasks - 1
    \/ initial_precheck_pending /\ ~initial_precheck_pending'
    \/ \E t \in Tasks : pc[t] = "pre_start" /\ pc'[t] # "pre_start"
    \/ \E t \in Tasks : pc[t] = "idle" /\ op'[t] = "manual_trigger_precheck"

\* C20: at most one precheck run (candidate selection, validation fan-out,
\* buffer update) executes at any time: under any interleaving of selector
\* calls, background triggers, config updates and manual triggers, a trigger
\* that arrives while precheck_in_progress is set returns without validating
\* any key and without touching the buffers.
C20_AtMostOnePrecheckRun ==
    /\ [](precheck_in_progress <=> run.owner # "none")
    /\ [][ (C20_TriggerArrives /\ precheck_in_progress)
           => UNCHANGED <<run, precheck_in_progress, bufVars, failVars, freezeVars>>
         ]_vars
    /\ [][ (run'.owner # "none" /\ run'.owner # run.owner) => run.owner = "none" ]_vars
    /\ [][ (run.owner # "none" /\ run'.owner # "none")
           => /\ run'.keys = run.keys
              /\ \A i \in 1..Len(run.keys) : run.res[i] # "todo" => run'.res[i] # "todo"
         ]_vars

\* While the run of a manual trigger is in flight, one of its keys validated,
\* a selector call found no usable batch, had its trigger turned away and
\* waits; a background task is still queued.
C20_Witness ==
    /\ precheck_in_progress
    /\ run.owner = "t1"
    /\ \E i \in 1..Len(run.keys) : run.res[i] \in {"valid", "invalid"}
    /\ pc["t2"] = "pre_wait"
    /\ mode["t2"] = "wait"

\* ------------------------------------------------------------------------
\* Properties of the double buffer under selection (checked under SpecBuffer)
\* ------------------------------------------------------------------------
\* The step in which the selector call of task t draws from the current batch
\* (lines 256-275).
DrawsFromBatch(t) == mode[t] # "batch" /\ mode'[t] = "batch"

C22_ConsecutiveOrSwapped ==
    [][ \A t \in Tasks :
            (DrawsFromBatch(t) /\ last_pick.how # "none")
            => IF last_pick.how = "swap"
               THEN ret'[t] = last_pick.head
               ELSE /\ current_batch_index = last_pick.index + 1
                    /\ ret'[t] = _get_current_batch[last_pick.index + 2]
      ]_vars

\* C22: across two consecutive get_next_working_key calls in precheck mode
\* with no precheck completing between them, either the second returned key
\* sits at the index directly after the first in the current batch, or a swap
\* occurred between them and the second returned key is element 0 of what was
\* the next buffer before the swap, or the first call drew the last key of the
\* batch while the next buffer was not ready and the second returned key is
\* element 0 of that same batch.
C22_ConsecutiveSwappedOrWrapped ==
    [][ \A t \in Tasks :
            (DrawsFromBatch(t) /\ last_pick.how # "none")
            => IF last_pick.how = "swap"
               THEN /\ current_batch_index = 0
                    /\ ret'[t] = last_pick.head
               ELSE IF last_pick.how = "wrap"
               THEN /\ current_batch_index = 0
                    /\ ret'[t] = last_pick.head
                    /\ last_pick.index + 1 = Len(_get_current_batch)
               ELSE /\ current_batch_index = last_pick.index + 1
                    /\ ret'[t] = _get_current_batch[last_pick.index + 2]
      ]_vars

\* The second of two consecutive draws from a two-key batch, the first of
\* which wrapped the index: it returned element 0 again, and no precheck
\* completed in between.
C22_Witness ==
    /\ pc["t1"] = "done"
    /\ mode["t1"] = "batch"
    /\ last_pick.after = "wrap"
    /\ last_pick.how = "next"
    /\ last_pick.index = 0
    /\ current_batch_index = 1
    /\ Len(_get_current_batch) = 2
    /\ ret["t1"] = _get_current_batch[1]

\* C23: whenever a selector call draws the last key of the current batch while
\* the next buffer is ready, the swap happens before that call returns:
\* afterwards current is the former next buffer with unchanged contents,
\* current_index = 0, used_count = 0, the former current slot is empty and
\* marked not ready, trigger_threshold is recomputed from the new batch; and
\* no later selection returns a key from the old batch's slot: a slot that is
\* not the current one holds keys only when a precheck has marked it ready.
C23_SwapBeforeReturn ==
    /\ [][ \A t \in Tasks :
               (/\ DrawsFromBatch(t)
                /\ current_batch_index + 1 >= Len(_get_current_batch)
                /\ _is_next_batch_ready)
               => /\ pc'[t] # pc[t]
                  /\ ret'[t] = _get_current_batch[Len(_get_current_batch)]
                  /\ current_batch_name' # current_batch_name
                  /\ _get_current_batch' = _get_next_batch
                  /\ _is_current_batch_ready'
                  /\ current_batch_index' = 0
                  /\ valid_keys_used_count' = 0
                  /\ _get_next_batch' = << >>
                  /\ ~_is_next_batch_ready'
                  /\ valid_keys_trigger_threshold' =
                         IF precheck_enabled
                         THEN Max(1, (Len(_get_next_batch) * precheck_trigger_ratio) \div 10)
                         ELSE 0
         ]_vars
    /\ [](~_is_next_batch_ready => _get_next_batch = << >>)

\* A call drew the last key of the two-key batch A while B was ready: it
\* returned that key and left B, a one-key batch, as the current batch.
C23_Witness ==
    /\ pc["t1"] = "done"
    /\ mode["t1"] = "batch"
    /\ last_pick.how = "swap"
    /\ last_pick.index = 1
    /\ current_batch_name = "B"
    /\ Len(valid_keys_batch_b) = 1
    /\ valid_keys_batch_a = << >>
    /\ ~batch_a_ready
    /\ current_batch_index = 0
    /\ valid_keys_used_count = 0
    /\ ret["t1"] # valid_keys_batch_b[1]

\* C24: a selector call that draws a key from the current batch starts a
\* background precheck when, after the draw, used_count >= trigger_threshold,
\* no precheck is in progress and the next buffer is not ready; and it starts
\* none while used_count < trigger_threshold and the batch is not exhausted.
\* With ratio 1.0 on a freshly established batch the refill therefore starts
\* only on the call that draws the last key.
C24_TriggerAtThreshold ==
    [][ \A t \in Tasks :
           DrawsFromBatch(t)
           => /\ (/\ valid_keys_used_count + 1 >= valid_keys_trigger_threshold
                  /\ ~precheck_in_progress
                  /\ ~_is_next_batch_ready
                  /\ bg_tasks < MaxBgTasks)
                 => bg_tasks' > bg_tasks
              /\ (/\ valid_keys_used_count + 1 < valid_keys_trigger_threshold
                  /\ current_batch_index + 1 < Len(_get_current_batch))
                 => bg_tasks' = bg_tasks
              /\ (/\ precheck_trigger_ratio = 10
                  /\ valid_keys_trigger_threshold = Len(_get_current_batch)
                  /\ valid_keys_used_count = current_batch_index
                  /\ current_batch_index + 1 < Len(_get_current_batch))
                 => bg_tasks' = bg_tasks
      ]_vars

\* With ratio 0.5 and a two-key batch (threshold 1) the first draw has
\* started the refill: no configuration update has run (the ratio is still
\* 0.5), so the one background task was started by that draw.
C24_Witness ==
    /\ pc["t1"] = "done"
    /\ mode["t1"] = "batch"
    /\ precheck_trigger_ratio = 5
    /\ Len(_get_current_batch) = 2
    /\ valid_keys_trigger_threshold = 1
    /\ last_pick.how = "next"
    /\ last_pick.index = 0
    /\ valid_keys_used_count = 1
    /\ ~precheck_in_progress
    /\ ~_is_next_batch_ready
    /\ bg_tasks = 1

\* With ratio 1.0 the first draw of a two-key batch (threshold 2) started
\* nothing.
C24_NoEarlyTrigger ==
    /\ pc["t1"] = "done"
    /\ mode["t1"] = "batch"
    /\ precheck_trigger_ratio = 10
    /\ Len(_get_current_batch) = 2
    /\ valid_keys_trigger_threshold = 2
    /\ last_pick.how = "next"
    /\ last_pick.index = 0
    /\ valid_keys_used_count = 1
    /\ ~precheck_in_progress
    /\ bg_tasks = 0

\* C25: whenever precheck is enabled and the current buffer is non-empty,
\* trigger_threshold = max(1, floor(len(current) * trigger_ratio)) for the
\* currently configured trigger_ratio (in tenths here), and so lies between 1
\* and len(current).
C25_ThresholdMatchesRatio ==
    (precheck_enabled /\ Len(_get_current_batch) > 0)
    => /\ valid_keys_trigger_threshold =
             Max(1, (Len(_get_current_batch) * precheck_trigger_ratio) \div 10)
       /\ valid_keys_trigger_threshold >= 1
       /\ valid_keys_trigger_threshold <= Len(_get_current_batch)

\* The same equation outside the span in which update_precheck_config has
\* stored the new ratio and waits for the configuration to be saved.
C25_ThresholdMatchesOnceSaved ==
    ~config_update_pending => C25_ThresholdMatchesRatio

\* C26: every get_next_working_key call in precheck mode that returns a key
\* from the current batch also advances the rotator: the cursor and the usage
\* counter move forward by one per returned key, so the position the precheck
\* fill starts from moves with consumption.
C26_DrawAdvancesRotator ==
    [][ \A t \in Tasks :
           (DrawsFromBatch(t) /\ ret'[t] \in KeySet(api_keys))
           => /\ key_usage_counter' = key_usage_counter + 1
              /\ cycle_pos' = CycleAdvance(cycle_pos, Len(api_keys))
              /\ get_current_key_position' # get_current_key_position
      ]_vars

\* C27: every get_next_key call increments usage_counter by exactly one,
\* whether or not precheck is enabled, so that after at least one advance
\* get_current_key_position() = (usage_counter - 1) mod |keys| is the index of
\* the key the rotator returned most recently.
C27_PositionIsLastReturned ==
    /\ [][ Len(drawn') = Len(drawn) + 1
            => key_usage_counter' = key_usage_counter + 1 ]_vars
    /\ [](drawn # << >>
           => api_keys[get_current_key_position + 1] = drawn[Len(drawn)])

\* The slots a precheck run can fill, by name.
SlotKeys(s) == IF s = "A" THEN valid_keys_batch_a ELSE valid_keys_batch_b

SlotReady(s) == IF s = "A" THEN batch_a_ready ELSE batch_b_ready

\* C28: every key held in a ready buffer was reported valid by a validation
\* call issued during the precheck run that filled that buffer: a buffer is
\* filled, and marked ready, only by the completion of a run and only with
\* keys whose check in that run ended valid; a check ends valid only out of an
\* upstream call; and a key that is frozen or disabled when its check begins
\* gets no upstream call and is not placed in the buffer.
C28_BufferKeysValidated ==
    /\ [][ \A s \in {"A", "B"} :
               ((SlotKeys(s)' # SlotKeys(s) /\ SlotKeys(s)' # << >>)
                \/ (SlotReady(s)' /\ ~SlotReady(s)))
               => /\ run.owner # "none"
                  /\ run'.owner = "none"
                  /\ SlotReady(s)'
                  /\ SlotKeys(s)' # << >>
                  /\ \A j \in 1..Len(SlotKeys(s)') :
                         \E i \in 1..Len(run.keys) :
                            /\ run.keys[i] = SlotKeys(s)'[j]
                            /\ run.res[i] = "valid"
         ]_vars
    /\ [][ (run.owner # "none" /\ run'.owner # "none")
            => \A i \in 1..Len(run.keys) :
                  /\ (run'.res[i] = "valid" /\ run.res[i] # "valid")
                     => run.res[i] = "flight"
                  /\ (run'.res[i] = "flight" /\ run.res[i] # "flight")
                     => /\ run.res[i] = "todo"
                        /\ ~is_key_frozen(run.keys[i])
                        /\ ~is_key_disabled(run.keys[i])
                  /\ (run.res[i] = "todo" /\ run'.res[i] # "todo"
                      /\ (is_key_frozen(run.keys[i]) \/ is_key_disabled(run.keys[i])))
                     => run'.res[i] = "invalid"
                  /\ run.res[i] = "invalid" => run'.res[i] = "invalid"
         ]_vars
    /\ [](\A s \in {"A", "B"} : SlotReady(s) => SlotKeys(s) # << >>)

\* A run has skipped the disabled key k1 (its check ended invalid with no
\* failure recorded and no automatic freeze) and validated the other candidate, while
\* the current buffer, filled by an earlier run, is ready.
C28_Witness ==
    /\ run.owner # "none"
    /\ _is_current_batch_ready
    /\ Len(_get_current_batch) > 0
    /\ \E i, j \in 1..Len(run.keys) :
           /\ run.keys[i] = "k1"
           /\ run.res[i] = "invalid"
           /\ is_key_disabled("k1")
           /\ frozen_keys["k1"] = Absent
           /\ fail_events["k1"] = 0
           /\ run.res[j] = "valid"

\* C29: validating candidate k during a precheck: on upstream success
\* fail_count[k] is reset to 0 and k is reported valid; on a 429 / quota-style
\* error with freeze-on-429 enabled k is frozen, fail_count[k] is unchanged and
\* k is excluded from the batch; on any other error fail_count[k] increases by
\* exactly one and k is excluded. No error leaves the precheck: the run goes
\* on with every other result untouched.
C29_ValidationOutcomes ==
    [][ \A i \in 1..Len(run.keys) :
           (run.res[i] = "flight" /\ run'.res[i] # "flight")
           => LET k == run.keys[i]
                  outcome == last_call'.ret
              IN  /\ last_call'.op = "_validate_key_with_api"
                  /\ last_call'.key = k
                  /\ outcome \in {"ok", "429", "err"}
                  /\ run'.owner = run.owner
                  /\ run'.keys = run.keys
                  /\ \A j \in 1..Len(run.keys) : j # i => run'.res[j] = run.res[j]
                  /\ precheck_in_progress' = precheck_in_progress
                  /\ pc' = pc
                  /\ \A h \in KeySet(api_keys) \ {k} :
                         key_failure_counts'[h] = key_failure_counts[h]
                  /\ IF outcome = "ok"
                     THEN /\ run'.res[i] = "valid"
                          /\ key_failure_counts'[k] = 0
                          /\ frozen_keys' = frozen_keys
                          /\ manually_frozen_keys' = manually_frozen_keys
                     ELSE IF outcome = "429" /\ enable_freeze_429
                     THEN /\ run'.res[i] = "invalid"
                          /\ is_key_frozen(k)'
                          /\ key_failure_counts'[k] = key_failure_counts[k]
                     ELSE /\ run'.res[i] = "invalid"
                          /\ key_failure_counts'[k] = key_failure_counts[k] + 1
                          /\ frozen_keys' = frozen_keys
                          /\ manually_frozen_keys' = manually_frozen_keys
      ]_vars

\* A key that had failed once in an earlier run has just hit a 429 with
\* freeze-on-429 enabled: it is frozen, its count is still 1, and its check
\* ended invalid while the run goes on.
C29_Witness ==
    /\ last_call.op = "_validate_key_with_api"
    /\ last_call.ret = "429"
    /\ enable_freeze_429
    /\ frozen_keys[last_call.key] # Absent
    /\ is_key_frozen(last_call.key)
    /\ key_failure_counts[last_call.key] = 1
    /\ run.owner # "none"
    /\ precheck_in_progress
    /\ \E i \in 1..Len(run.keys) :
           run.keys[i] = last_call.key /\ run.res[i] = "invalid"

\* The key list walked cyclically from position p, one full turn.
C30_WalkFrom(p) ==
    [j \in 1..Len(api_keys) |-> api_keys[((p + j - 1) % Len(api_keys)) + 1]]

\* The first count keys with fail_count < MAX_FAILURES met on that walk.
C30_ExpectedCandidates(p, count) ==
    LET good == SelectSeq(C30_WalkFrom(p), LAMBDA k : FailOf(k) < MAX_FAILURES)
    IN  SubSeq(good, 1, Min(count, Len(good)))

\* The number of keys of the pool with fail_count < MAX_FAILURES.
C30_PotentiallyValid ==
    Cardinality({k \in KeySet(api_keys) : FailOf(k) < MAX_FAILURES})

\* C30: when at least count keys of the pool have fail_count < MAX_FAILURES,
\* the candidate list of a precheck run consists of exactly the first count
\* such keys met walking the key list cyclically from the rotator's current
\* position, in that order and without duplicates; no key with
\* fail_count >= MAX_FAILURES is a candidate.
C30_CandidatesWalkFromPosition ==
    [][ (run.owner = "none" /\ run'.owner # "none"
         /\ C30_PotentiallyValid >= precheck_count)
        => /\ run'.keys = C30_ExpectedCandidates(get_current_key_position, precheck_count)
           /\ \A i, j \in 1..Len(run'.keys) : i # j => run'.keys[i] # run'.keys[j]
           /\ \A i \in 1..Len(run'.keys) : FailOf(run'.keys[i]) < MAX_FAILURES
      ]_vars

\* The same law for pools in which no key has reached MAX_FAILURES.
C30_CandidatesWhenAllBelow ==
    [][ (run.owner = "none" /\ run'.owner # "none"
         /\ C30_PotentiallyValid = Len(api_keys))
        => run'.keys = C30_ExpectedCandidates(get_current_key_position, precheck_count)
      ]_vars

\* The parts of the law that do not depend on the order.
C30_CandidatesDistinctAndBelow ==
    [][ (run.owner = "none" /\ run'.owner # "none"
         /\ C30_PotentiallyValid >= precheck_count)
        => /\ Len(run'.keys) = precheck_count
           /\ \A i, j \in 1..Len(run'.keys) : i # j => run'.keys[i] # run'.keys[j]
           /\ \A i \in 1..Len(run'.keys) : FailOf(run'.keys[i]) < MAX_FAILURES
      ]_vars

\* C31: when fewer than count keys have fail_count < MAX_FAILURES, the
\* candidates of a precheck run are the first min(count, |keys|) keys of the
\* key list sorted ascending by fail_count, for every rotator position: no key
\* is a candidate while a key with a strictly smaller fail_count is left out.
C31_CandidatesLowestCounts ==
    [][ (run.owner = "none" /\ run'.owner # "none"
         /\ C30_PotentiallyValid < precheck_count)
        => /\ run'.keys = SubSeq(SortFrom(api_keys, 0), 1,
                                 Min(precheck_count, Len(api_keys)))
           /\ \A i \in 1..Len(run'.keys) :
                 \A h \in KeySet(api_keys) :
                    FailOf(h) < FailOf(run'.keys[i])
                    => \E j \in 1..Len(run'.keys) : run'.keys[j] = h
      ]_vars

\* The same law for runs that start while the rotator position is 0.
C31_CandidatesLowestAtPositionZero ==
    [][ (run.owner = "none" /\ run'.owner # "none"
         /\ C30_PotentiallyValid < precheck_count
         /\ get_current_key_position = 0)
        => run'.keys = SubSeq(SortFrom(api_keys, 0), 1,
                              Min(precheck_count, Len(api_keys)))
      ]_vars

\* The lock task t is waiting for in its listing call, if any.
WaitsFor(t) ==
    IF lk[t].pc = "outer" THEN OuterLock(lk[t].op)
    ELSE IF lk[t].pc \in {"want1", "want2"} THEN InnerLock(lk[t].op)
    ELSE "none"

\* Two tasks each hold the lock the other is waiting for.
LockCycle ==
    \E t, u \in Tasks :
       /\ t # u
       /\ key_state_lock = t
       /\ WaitsFor(t) = "failure_count_lock"
       /\ failure_count_lock = u
       /\ WaitsFor(u) = "key_state_lock"

\* C32: no task ever acquires key_state_lock while it holds
\* failure_count_lock (in every operation that holds both, key_state_lock is
\* acquired first), and, every lock acquisition being a point where another
\* task may run, no interleaving of these operations deadlocks.
C32_StateLockBeforeFailureLock ==
    /\ [][ \A t \in Tasks :
              (key_state_lock' = t /\ key_state_lock # t) => failure_count_lock # t
         ]_vars
    /\ []~LockCycle

\* The first half of C32 alone.
C32_LockOrder ==
    [][ \A t \in Tasks :
           (key_state_lock' = t /\ key_state_lock # t) => failure_count_lock # t
      ]_vars

\* The second half of C32 alone.
C32_NoLockCycle == ~LockCycle

\* C33: every precheck run that sets precheck_in_progress eventually clears
\* it, whether the run filled a buffer or found no valid key, provided every
\* upstream validation call terminates; and once the flag is clear a later
\* trigger can start a new precheck.
C33_InProgressReleased ==
    /\ precheck_in_progress ~> ~precheck_in_progress
    /\ []((~precheck_in_progress /\ precheck_enabled /\ Len(api_keys) > 0)
          => PrecheckStarts)

\* A run has ended without a valid key (both keys failed validation, no batch
\* was established) and the flag is clear again.
C33_Witness ==
    /\ ~precheck_in_progress
    /\ run.owner = "none"
    /\ ~initial_precheck_pending
    /\ Len(_get_current_batch) = 0
    /\ \A k \in KeySet(api_keys) : fail_events[k] > 0
    /\ PrecheckStarts

\* C34: in precheck mode, with more keys in the pool than the precheck count
\* and every key permanently valid, under repeated get_next_working_key calls
\* and fair scheduling of the background prechecks every key of the pool is
\* eventually returned by the selector.
C34_EveryKeyEventuallyReturned ==
    \A k \in Keys : <>(\E t \in Tasks : ret[t] = k)

\* What holds instead, at any pace of the requests: the selector never returns
\* k2, and the rotator never leaves its initial position.
C34_SecondKeyNeverReturned ==
    /\ \A t \in Tasks : ret[t] # "k2"
    /\ key_usage_counter = 0
    /\ \A i \in 1..Len(run.keys) : run.keys[i] # "k2"

\* Selections go on for ever: the buffers are swapped again and again, and
\* no draw finds the used count at its bound.
C34_SwapsRecur ==
    /\ []<>(last_pick.how = "swap")
    /\ [](valid_keys_used_count < MaxUsedCount)

\* The slot that is not current.
C35_NextSlot == IF current_batch_name = "A" THEN "B" ELSE "A"

\* A step that completes a precheck run.
C35_Completion == run.owner # "none" /\ run'.owner = "none"

\* The step writes slot s: its keys or its ready flag change.
C35_Writes(s) == SlotKeys(s)' # SlotKeys(s) \/ SlotReady(s)' # SlotReady(s)

\* C35: a precheck completion never replaces the contents of a ready buffer:
\* it writes the current slot only when current is empty or not ready, writes
\* the next slot only when current is ready and next is not ready, and
\* otherwise (next already ready, or zero valid keys found) leaves both
\* buffers, both ready flags, current_index and used_count unchanged.
C35_CompletionKeepsReadyBuffers ==
    [][ C35_Completion =>
          /\ \A s \in {"A", "B"} :
                 (SlotReady(s) /\ SlotKeys(s) # << >>) => SlotKeys(s)' = SlotKeys(s)
          /\ C35_Writes(current_batch_name)
                 => (Len(_get_current_batch) = 0 \/ ~_is_current_batch_ready)
          /\ C35_Writes(C35_NextSlot)
                 => (_is_current_batch_ready /\ ~_is_next_batch_ready)
          /\ (\/ RunValidKeys = << >>
              \/ (/\ _is_next_batch_ready
                  /\ _is_current_batch_ready
                  /\ Len(_get_current_batch) > 0))
                 => UNCHANGED <<valid_keys_batch_a, valid_keys_batch_b, batch_a_ready,
                                batch_b_ready, current_batch_index,
                                valid_keys_used_count>>
      ]_vars

\* A run with a valid key is about to complete while both buffers are ready,
\* after a swap, with draws already made from the current batch.
C35_Witness ==
    /\ run.owner # "none"
    /\ \A i \in 1..Len(run.keys) : run.res[i] \in {"valid", "invalid"}
    /\ RunValidKeys # << >>
    /\ current_batch_name = "B"
    /\ _is_current_batch_ready
    /\ Len(_get_current_batch) > 0
    /\ _is_next_batch_ready
    /\ _get_next_batch # RunValidKeys
    /\ valid_keys_used_count > 0

\* C36: for each buffer slot (A and B), in every state between operations,
\* ready[slot] is true if and only if the slot's key list is non-empty;
\* consequently once the current buffer has become non-empty the selector
\* never again finds the current buffer empty.
C36_ReadyIffNonEmpty ==
    /\ [](\A s \in {"A", "B"} : SlotReady(s) <=> SlotKeys(s) # << >>)
    /\ [][Len(_get_current_batch) > 0 => Len(_get_current_batch') > 0]_vars

\* After a swap to B and a further run: both slots are ready and non-empty
\* and a key has been drawn from B.
C36_Witness ==
    /\ current_batch_name = "B"
    /\ batch_a_ready
    /\ batch_b_ready
    /\ Len(valid_keys_batch_a) > 0
    /\ Len(valid_keys_batch_b) = 2
    /\ current_batch_index = 1
    /\ run.owner = "none"

\* A step in which the selector draws a key from the current batch: the used
\* count goes up by one, or the buffers are swapped.
C37_Draw ==
    \/ valid_keys_used_count' = valid_keys_used_count + 1
    \/ current_batch_name' # current_batch_name

\* The draws the current batch still has to serve before it is exhausted.
C37_Remaining == Len(_get_current_batch) - current_batch_index

\* C37: once the next buffer is ready, the swap to it happens after at most
\* len(current) further selector calls that draw from the current batch, even
\* if the current batch was earlier wrapped back to index 0 by the emergency
\* path; a ready next buffer is never left unused while selections continue.
\* While next is ready between 1 and len(current) draws remain; each draw
\* either is the last one and swaps, or takes one off the remaining draws and
\* leaves next ready; no other step changes the remaining draws or the next
\* buffer.
C37_SwapWithinCurrentLength ==
    /\ [](_is_next_batch_ready =>
              /\ C37_Remaining >= 1
              /\ C37_Remaining <= Len(_get_current_batch))
    /\ [][ _is_next_batch_ready =>
             IF C37_Draw
             THEN \/ /\ C37_Remaining = 1
                     /\ current_batch_name' # current_batch_name
                     /\ _get_current_batch' = _get_next_batch
                     /\ current_batch_index' = 0
                  \/ /\ C37_Remaining > 1
                     /\ C37_Remaining' = C37_Remaining - 1
                     /\ _is_next_batch_ready'
                     /\ UNCHANGED <<current_batch_name, valid_keys_batch_a,
                                    valid_keys_batch_b>>
             ELSE /\ _is_next_batch_ready'
                  /\ UNCHANGED <<current_batch_name, current_batch_index,
                                 valid_keys_batch_a, valid_keys_batch_b>>
      ]_vars

\* The current batch, of one key, was wrapped (it has served more draws than
\* its index accounts for), the next buffer became ready afterwards, and the
\* next call will draw the last remaining key and swap.
C37_Witness ==
    /\ _is_next_batch_ready
    /\ Len(_get_current_batch) = 1
    /\ current_batch_index = 0
    /\ valid_keys_used_count = 2
    /\ valid_keys_used_count < MaxUsedCount
    /\ Len(_get_next_batch) = 2
    /\ run.owner = "none"
    /\ pc["t1"] = "idle"

\* The step is the validation of key k by the run in progress: the check of k
\* goes from in flight to valid with the count reset to 0, or to invalid with
\* the count raised by one.
C38_ValidationOf(k) ==
    \E i \in 1..Len(run.keys) :
       /\ run.keys[i] = k
       /\ run.res[i] = "flight"
       /\ \/ run'.res[i] = "valid" /\ key_failure_counts'[k] = 0
          \/ run'.res[i] = "invalid" /\ key_failure_counts'[k] = FailOf(k) + 1

\* The step is a call of manual_trigger_precheck that is not refused.
C38_ManualEntry ==
    \E t \in Tasks :
       /\ pc[t] = "idle"
       /\ op'[t] = "manual_trigger_precheck"
       /\ pc'[t] # "done"

\* C38 as stated: manual_trigger_precheck changes a key's fail_count only as
\* the outcome of validating that key in the precheck it runs (reset to 0 on
\* success, +1 on a non-429 error): the fail_count of every key that was not
\* validated in that run is the same after the call as before it, in every
\* state including the one where all keys have reached MAX_FAILURES.
C38_CountsChangeOnlyByValidation ==
    [][ \A k \in Keys :
            key_failure_counts'[k] # key_failure_counts[k] => C38_ValidationOf(k)
      ]_vars

\* C38 amended: the same, except that a call made while no key is below
\* MAX_FAILURES first resets the fail_count of the first five keys to 0.
C38_CountsChangeByValidationOrRetryReset ==
    [][ \A k \in Keys :
            key_failure_counts'[k] # key_failure_counts[k]
            => \/ C38_ValidationOf(k)
               \/ /\ C38_ManualEntry
                  /\ \A j \in KeySet(api_keys) : FailOf(j) >= MAX_FAILURES
                  /\ \E i \in 1..Min(5, Len(api_keys)) : api_keys[i] = k
                  /\ key_failure_counts'[k] = 0
      ]_vars

\* Every key has reached MAX_FAILURES and a manual trigger would be accepted.
C38_Witness ==
    /\ \A k \in KeySet(api_keys) : FailOf(k) = MAX_FAILURES
    /\ ~Refuses
    /\ pc["t1"] = "idle"
    /\ run.owner = "none"

\* The keys named in calls that the pool does not hold.
C39_Foreign == Keys \ KeySet(api_keys)

\* C39: in every reachable state every key appearing in the fail_count map,
\* the frozen_until map or the manually-frozen set of the primary pool is a
\* member of the pool's key list: freeze, manual freeze / disable, batch
\* operations and key verification invoked with a key that is not in the list
\* leave these structures unchanged.
C39_StructuresWithinPool ==
    /\ [](\A k \in C39_Foreign :
              /\ key_failure_counts[k] = Absent
              /\ frozen_keys[k] = Absent
              /\ k \notin manually_frozen_keys)
    /\ [][ last_call'.key \in C39_Foreign
             => UNCHANGED <<key_failure_counts, frozen_keys, manually_frozen_keys>>
      ]_vars

\* What holds: the two batch methods of the key manager skip keys that are not
\* in the list.
C39_BatchMethodsSkipForeign ==
    [][ last_call'.op \in {"batch_disable_keys", "batch_enable_keys"}
          => \A k \in C39_Foreign :
                /\ frozen_keys'[k] = frozen_keys[k]
                /\ (k \in manually_frozen_keys') = (k \in manually_frozen_keys)
                /\ key_failure_counts'[k] = key_failure_counts[k]
      ]_vars

\* The keys of the status map of the key type, each once, in ascending order.
C40_Expected(key_type) == SelectSeq(KeyOrder, LAMBDA k : k \in StatusMapKeys(key_type))

C40_Agrees(key_type) ==
    /\ total_count(key_type) = Cardinality(StatusMapKeys(key_type))
    /\ \A page_size \in 1..MaxPageSize :
           PagesUpTo(key_type, total_pages(key_type, page_size), page_size)
               = C40_Expected(key_type)

\* C40: for each key type (valid, invalid, frozen/disabled) with no search
\* filter and no fail-count threshold, the total_count reported by
\* get_keys_by_status_paginated equals the number of keys in the corresponding
\* map of get_keys_by_status taken in the same state, and concatenating pages
\* 1..total_pages lists each of those keys exactly once in ascending key
\* order - also for a key that is both auto-frozen and manually frozen.
C40_PagesMatchStatusMaps == \A key_type \in KeyTypes : C40_Agrees(key_type)

\* What holds: the valid and invalid pages agree with their maps, and so does
\* the frozen page while no key is both manually frozen and auto-frozen.
C40_PagesMatchUnlessFrozenTwice ==
    /\ C40_Agrees("valid")
    /\ C40_Agrees("invalid")
    /\ (\A k \in Keys : PageEntries("frozen", k) <= 1) => C40_Agrees("frozen")

====
